---- MODULE Spec2Model ----
(***************************************************************************)
(* A model of the AILO repository (aakashysharma/ailo-bot-code):           *)
(*   - UtdanningAPIDownloader._make_request     (src/api_downloader.py)    *)
(*   - the web front end's lazy chatbot          (src/ailo_web.py)          *)
(*   - AILOChatbot.chat and the relevance search (src/ailo_chatbot.py)      *)
(*   - UtdanningAPIDownloader.download_all_endpoints and the Resolver's     *)
(*     parameterized phase (src/api_downloader.py, src/url_processor.py)    *)
(*   - UtdanningDataPipeline and its CLI          (src/main.py)              *)
(*   - AILODataScheduler                          (src/ailo_scheduler.py)    *)
(*   - AILOEvaluationFramework: scoring and the choice of questions         *)
(*     (src/ailo_evaluation_framework.py)                                   *)
(*   - URLProcessor's is_valid_id                 (src/url_processor.py)     *)
(*   - the repair scripts (src/fix_422_errors.py, apply_all_422_fixes.py,   *)
(*     fix_404_errors.py, fix_yrke_urls.py)                                 *)
(*   - TextExtractor._split_text_into_chunks      (src/text_extractor.py)    *)
(* Each part has its own specification; the variables of the other parts    *)
(* stay at their initial values under it.                                   *)
(***************************************************************************)
EXTENDS Integers, Sequences, FiniteSets, TLC

VARIABLES
    \* ---- _make_request (one call) ----
    retry_attempts,   \* self.retry_attempts
    rq_pc,            \* position in _make_request: "enter", "attempt", "sleep", "done"
    attempt,          \* the loop variable of `for attempt in range(self.retry_attempts)`
    stats,            \* self.stats (the three request counters)
    rq_outcomes,      \* what each session.get of this call ended with, in order
    rq_sleeps,        \* the argument of every asyncio.sleep of this call, in order
    rq_warnings,      \* number of logger.warning calls of this call
    rq_result,        \* "pending", "data" (the parsed JSON) or "None"
    \* ---- the web front end (ailo_web.py) ----
    corpus_docs,      \* number of documents load_knowledge_base finds on disk
    ailo,             \* the global `ailo`: 0 for None, else the id of an instance
    ailo_ready,       \* the global `ailo_ready`
    inst,             \* the AILOChatbot instances constructed so far, by id
    w_pc,             \* each server thread's position in its request handler
    w_req,            \* each thread's current request: route, blank message or not
    w_target,         \* the instance whose load_knowledge_base the thread is running
    w_ret,            \* what get_or_create_ailo returned to the thread (0 for None)
    w_resp,           \* the HTTP status the thread answered with (0: none yet)
    w_forwarded,      \* the thread called ailo_instance.chat(user_message)
    w_after_fail,     \* the request triggered the failed initialization or began after it
    init_failed,      \* some get_or_create_ailo call found the knowledge base empty
    got_unloaded,     \* some handler obtained an instance whose load had not returned
    \* ---- AILOChatbot (ailo_chatbot.py), one instance, one caller ----
    knowledge_base,   \* self.knowledge_base: a sequence of documents
    max_context_docs, \* self.max_context_docs
    conversation_history, \* self.conversation_history: a sequence of messages
    ch_pc,            \* position of the chat call: "idle", "awaiting_llm", "returned"
    ch_query,         \* user_message of the current call: its set of words
    ch_context,       \* the context _prepare_context built for the current call
    ch_posts,         \* POSTs to {lm_studio_url}/chat/completions made by the current call
    ch_return,        \* what the current call returned
    ch_calls,         \* number of chat calls made so far
    \* ---- a download run (api_downloader.py, url_processor.py) ----
    catalog,          \* the descriptors of url_list.json, or "unreadable"
    max_concurrent,   \* self.max_concurrent
    dl_pc,            \* position of download_with_parameterized_support
    classes,          \* simple_urls, query_param_urls, param_urls: positions in the catalog
    parameter_values, \* self.parameter_values: "unset" ({}) or the mined values
    tasks,            \* every coroutine the run has created, with its state
    held,             \* permits of the current semaphore that are taken
    summary,          \* the Download Summary, once computed
    templates_left,   \* Resolver: the url_mappings entries still to download
    \* ---- one invocation of the pipeline CLI (main.py) ----
    pl_mode,          \* "full", or the phase of a single-phase flag
    pl_pc,            \* position of main() and run_complete_pipeline
    pipeline_stats,   \* self.pipeline_stats: phases_completed, the totals, errors
    pl_started,       \* the phases started so far, in order
    pl_raised,        \* the phase that raised, or "none"
    summary_file,     \* complete_pipeline_summary.json as this invocation wrote it
    exit_code,        \* the process's exit status, -1 while it runs
    \* ---- the scheduler loop (ailo_scheduler.py) ----
    sc_pc,            \* position of run_scheduler
    sc_now,           \* the time, in sleeps of the loop
    next_run,         \* the job's next_run
    sc_log,           \* what run_data_pipeline logged for each run, in order
    \* ---- the evaluation framework (ailo_evaluation_framework.py) ----
    ailo_history,     \* self.ailo.conversation_history: per message its role and
                      \* whether its content holds "omformulere"
    ev_pc,            \* position of evaluate_question
    ev_args,          \* the arguments of the last _calculate_score call
    ev_score,         \* what the call returned, -1 when it returned nothing
    \* ---- the evaluation framework: choosing the questions ----
    questions,        \* run_evaluation's `questions`: the loaded pool, then the
                      \* selection; a question is its position in the pool
    pool,             \* what load_questions returned: the category of each question
    max_questions,    \* the cap
    sample_categories,\* the flag of run_evaluation
    sm_pc,            \* position of run_evaluation and _sample_by_category
    categorized,      \* the categories still to sample, in the dict's order
    sampled,          \* _sample_by_category's `sampled`
    additional,       \* how many questions the fill step added
    \* ---- the Resolver's check of a mined value (url_processor.py) ----
    id_val,           \* the string handed to is_valid_id
    id_pc,            \* "called" until is_valid_id returned, then "returned"
    id_valid,         \* what is_valid_id returned
    \* ---- the repair scripts (fix_422_errors.py, apply_all_422_fixes.py,
    \*      fix_404_errors.py, fix_yrke_urls.py) ----
    files,            \* the working directory: file name -> whether it exists, content
    rp_script,        \* the script that runs or ran last
    rp_pc,            \* position of the script
    url_list,         \* the script's list in memory
    rp_before,        \* the content of url_list.json when the run started
    rp_written,       \* the files the run opened for writing
    \* ---- TextExtractor._split_text_into_chunks (text_extractor.py) ----
    ck_text,          \* the text handed to _split_text_into_chunks
    ck_pc,            \* position of _split_text_into_chunks
    ck_start,         \* its local `start`
    chunks,           \* its list `chunks`: each chunk as the slice of the text it is
    \* ---- overlapping chat requests on the shared chatbot (ailo_web.py, ailo_chatbot.py) ----
    sh_pc,            \* position of each request thread in chat
    sh_turn,          \* the exchange each thread works on: the number of its user message
    sh_messages,      \* the `messages` list each thread built, <<>> once chat returned
    sh_prior,         \* exchanges completed before the requests that are followed
    sh_started,       \* followed chat calls so far that built a message list
    sh_seen,          \* for each thread, len(conversation_history) when its last call read it
    \* ---- AILOChatbot.load_knowledge_base (ailo_chatbot.py) ----
    vector_file,      \* processed/text_for_llm/vectorization_dataset.json on disk
    raw_dir,          \* the directory raw/ on disk: whether it exists, its *.json files
    indexed_data,     \* self.indexed_data
    ld_pc,            \* position of load_knowledge_base: "constructed" or "returned"
    \* ---- TextExtractor.create_vectorization_dataset (text_extractor.py) ----
    records,          \* all_records_normalized.json as loaded
    documents,        \* the list `documents` of create_vectorization_dataset
    document_id,      \* its local `document_id`
    ds_pc,            \* position: "loaded", "full", "chunked", "saved"
    \* ---- fix_yrke_urls.py run again on its promoted output ----
    sammenligning_ids, \* the y_ and u_ keys of utdanning_data/raw/sammenligning_main.json
    rr_runs,          \* runs of fix_yrke_urls started so far
    rr_promoted,      \* whether url_list.json is the output of an earlier run, moved there
    \* ---- URLProcessor.match_ids_to_parameterized_urls (url_processor.py) ----
    url_template,     \* the template of parameterized_urls that is followed
    id_collections,   \* what analyze_downloaded_data_for_ids returned
    url_mappings,     \* the entry of url_mappings for the template, if there is one
    mt_requested,     \* the URLs handed to _download_parameterized_url
    mt_pc             \* "analyzed", "matched" or "downloaded"

rqVars == <<retry_attempts, rq_pc, attempt, stats, rq_outcomes, rq_sleeps, rq_warnings, rq_result>>

webVars == <<corpus_docs, ailo, ailo_ready, inst, w_pc, w_req, w_target, w_ret, w_resp,
             w_forwarded, w_after_fail, init_failed, got_unloaded>>

chatVars == <<knowledge_base, max_context_docs, conversation_history, ch_pc, ch_query,
              ch_context, ch_posts, ch_return, ch_calls>>

dlVars == <<catalog, max_concurrent, dl_pc, classes, parameter_values, tasks, held, summary,
            templates_left>>

plVars == <<pl_mode, pl_pc, pipeline_stats, pl_started, pl_raised, summary_file, exit_code>>

scVars == <<sc_pc, sc_now, next_run, sc_log>>

evVars == <<ailo_history, ev_pc, ev_args, ev_score>>

smVars == <<questions, pool, max_questions, sample_categories, sm_pc, categorized, sampled,
            additional>>

idVars == <<id_val, id_pc, id_valid>>

rpVars == <<files, rp_script, rp_pc, url_list, rp_before, rp_written>>

ckVars == <<ck_text, ck_pc, ck_start, chunks>>

shVars == <<sh_pc, sh_turn, sh_messages, sh_prior, sh_started, sh_seen>>

ldVars == <<vector_file, raw_dir, indexed_data, ld_pc>>

dsVars == <<records, documents, document_id, ds_pc>>

rrVars == <<sammenligning_ids, rr_runs, rr_promoted>>

mtVars == <<url_template, id_collections, url_mappings, mt_requested, mt_pc>>

vars == <<rqVars, webVars, chatVars, dlVars, plVars, scVars, evVars, smVars, idVars, rpVars, ckVars, shVars, ldVars, dsVars, rrVars, mtVars>>

----------------------------------------------------------------------------
(* Bounds of the model *)

\* largest retry_attempts a downloader is configured with
MaxRetryAttempts == 4

\* request threads of the threaded Flask server
NThreads == 2

\* largest number of documents in the corpus on disk
MaxCorpusDocs == 1

\* largest number of documents in the chatbot's knowledge base
MaxKbDocs == 3

\* largest max_context_docs a chatbot is constructed with
MaxContextDocs == 2

\* number of chat calls followed
MaxChatCalls == 1

\* largest number of descriptors in the catalog
MaxCatalog == 3

\* largest max_concurrent of a download run
MaxConcurrent == 2

\* retry_attempts of a download run
DownloadRetryAttempts == 2

\* largest number of values mined for one parameter
MaxMined == 1

\* largest total a pipeline phase reports (files, records, documents)
MaxPhaseTotal == 2

\* sleeps of the scheduler loop from one scheduled time to the next
SleepsPerDay == 2

\* sleeps of the scheduler loop that are followed
MaxSleeps == 8

\* largest keywords_count of a scored response
MaxKeywords == 3

\* largest number of messages in the evaluated chatbot's conversation history
MaxHistory == 4

\* largest number of questions in the questions file
MaxQuestions == 5

\* largest number of runs of equal characters in a string handed to is_valid_id
MaxRuns == 3

\* largest number of entries of the url_list.json a repair script reads
MaxUrlEntries == 2

\* largest number of runs of equal characters in a text that is split
MaxTextRuns == 3

\* chat calls on the shared chatbot that are followed
MaxExchanges == 2

\* largest number of exchanges completed before them
MaxPriorTurns == 6

\* most documents in the corpus file, most *.json files in raw/
MaxLoadDocs == 2

\* most runs of equal consecutive records in all_records_normalized.json
MaxRecordRuns == 3

\* most runs of fix_yrke_urls in a row
MaxYrkeRuns == 3

\* a collection holds no, a few or more than MatchLimit ids of a kind
FewIds == 2

----------------------------------------------------------------------------
(* UtdanningAPIDownloader._make_request, src/api_downloader.py:506-539 *)

\* What one `session.get(url)` can end with: status 200 with a JSON body, any
\* other status, asyncio.TimeoutError, or any other exception (a transport
\* error, or a 200 whose body response.json() cannot parse).
Outcomes == {"200", "non200", "timeout", "exception"}

TransportFailures == {"timeout", "exception"}

Pow2(n) == 2 ^ n

\* line 536: the delay of the backoff sleep
BackoffDelay(a) == Pow2(a)

\* line 535: `if attempt < self.retry_attempts - 1`, reached after every
\* attempt that did not return, whatever it ended with (the non-200 branch of
\* line 527 only logs and falls through to it)
SleepsAfterMutant(o, a, n) == a < n
SleepsAfter(o, a, n) == a < n - 1

\* lines 522-526: only a 200 returns from inside the loop
ReturnsData(o) == o = "200"

ZeroStats == [total_requests |-> 0, successful_requests |-> 0, failed_requests |-> 0]

RqStart(n) ==
    /\ retry_attempts = n
    /\ rq_pc = "enter"
    /\ attempt = 0
    /\ stats = ZeroStats
    /\ rq_outcomes = <<>>
    /\ rq_sleeps = <<>>
    /\ rq_warnings = 0
    /\ rq_result = "pending"

\* line 517: entering the loop; range(0) is empty and falls to lines 538-539
MakeRequestEnter ==
    /\ rq_pc = "enter"
    /\ attempt' = 0
    /\ IF retry_attempts = 0
         THEN /\ stats' = [stats EXCEPT !.failed_requests = @ + 1]
              /\ rq_result' = "None"
              /\ rq_pc' = "done"
         ELSE /\ rq_pc' = "attempt"
              /\ UNCHANGED <<stats, rq_result>>
    /\ UNCHANGED <<retry_attempts, rq_outcomes, rq_sleeps, rq_warnings>>

\* line 517 again after an iteration that did not return: the next value of
\* range(self.retry_attempts), or lines 538-539 when the range is exhausted.
\* st is self.stats as the iteration left it.
LoopAdvance(st) ==
    IF attempt + 1 < retry_attempts
      THEN /\ attempt' = attempt + 1
           /\ rq_pc' = "attempt"
           /\ stats' = st
           /\ UNCHANGED rq_result
      ELSE /\ stats' = [st EXCEPT !.failed_requests = @ + 1]
           /\ rq_result' = "None"
           /\ rq_pc' = "done"
           /\ UNCHANGED attempt

\* lines 518-535: one iteration up to its sleep: count the request, await
\* session.get, return the data on 200, otherwise log a warning
MakeRequestAttempt(o) ==
    /\ rq_pc = "attempt"
    /\ rq_outcomes' = Append(rq_outcomes, o)
    /\ IF ReturnsData(o)
         THEN /\ stats' = [stats EXCEPT !.total_requests = @ + 1,
                                        !.successful_requests = @ + 1]
              /\ rq_result' = "data"
              /\ rq_pc' = "done"
              /\ UNCHANGED <<rq_warnings, attempt>>
         ELSE /\ rq_warnings' = rq_warnings + 1
              /\ IF SleepsAfter(o, attempt, retry_attempts)
                   THEN /\ rq_pc' = "sleep"
                        /\ stats' = [stats EXCEPT !.total_requests = @ + 1]
                        /\ UNCHANGED <<rq_result, attempt>>
                   ELSE LoopAdvance([stats EXCEPT !.total_requests = @ + 1])
    /\ UNCHANGED <<retry_attempts, rq_sleeps>>

\* line 536: await asyncio.sleep(2 ** attempt), then the loop goes on
MakeRequestBackoff ==
    /\ rq_pc = "sleep"
    /\ rq_sleeps' = Append(rq_sleeps, BackoffDelay(attempt))
    /\ LoopAdvance(stats)
    /\ UNCHANGED <<retry_attempts, rq_outcomes, rq_warnings>>

(* Claims about _make_request *)

AllTransportFailures == \A i \in 1..Len(rq_outcomes) : rq_outcomes[i] \in TransportFailures

\* C5: a response whose status is not 200 ends the call: no further attempt
\* and no backoff sleep follows it (only the timeouts and transport exceptions
\* before it were retried), the request is logged and counted failed once and
\* nothing is returned.
C5_NoRetryOnNon200 ==
    \A i \in 1..Len(rq_outcomes) :
        rq_outcomes[i] = "non200" =>
            /\ Len(rq_outcomes) = i
            /\ Len(rq_sleeps) = i - 1
            /\ rq_warnings = i
            /\ rq_pc = "done"
            /\ rq_result = "None"
            /\ stats.failed_requests = 1

\* C6: when every attempt of a finished call timed out or raised, the call
\* made exactly retry_attempts attempts, slept 2^0, 2^1, ... seconds between
\* consecutive attempts and not after the last, counted one failed request
\* and returned no data.
C6_ExhaustedRetries ==
    (rq_pc = "done" /\ AllTransportFailures) =>
        /\ Len(rq_outcomes) = retry_attempts
        /\ stats.total_requests = retry_attempts
        /\ rq_sleeps = [k \in 1..(retry_attempts - 1) |-> Pow2(k - 1)]
        /\ stats.failed_requests = 1
        /\ stats.successful_requests = 0
        /\ rq_result = "None"

\* C6's case: three attempts, all transport failures, sleeps of 1 and 2 s
C6_Witness ==
    /\ rq_pc = "done"
    /\ retry_attempts = 3
    /\ rq_outcomes \in {<<"timeout", "exception", "timeout">>}
    /\ rq_sleeps = <<1, 2>>
    /\ rq_result = "None"

----------------------------------------------------------------------------
(* The web front end, src/ailo_web.py, served by app.run(threaded=True),   *)
(* src/start_ailo_web.py:35-40: every request runs in a thread of its own, *)
(* and the threads interleave between any two statements.                  *)

Threads == 1..NThreads

\* the requests a client can send: POST /api/chat (message blank or not) and
\* GET /api/status
Requests == {[route |-> "chat", blank |-> TRUE], [route |-> "chat", blank |-> FALSE],
             [route |-> "status", blank |-> TRUE]}

NoRequest == [route |-> "none", blank |-> TRUE]

\* AILOChatbot(): knowledge_base = [] (src/ailo_chatbot.py:60), nothing loaded
NewInstance == [load |-> "new", knowledge_base |-> 0, loads |-> 0]

WebStart(n) ==
    /\ corpus_docs = n
    /\ ailo = 0
    /\ ailo_ready = FALSE
    /\ inst = <<>>
    /\ w_pc = [t \in Threads |-> "idle"]
    /\ w_req = [t \in Threads |-> NoRequest]
    /\ w_target = [t \in Threads |-> 0]
    /\ w_ret = [t \in Threads |-> 0]
    /\ w_resp = [t \in Threads |-> 0]
    /\ w_forwarded = [t \in Threads |-> FALSE]
    /\ w_after_fail = [t \in Threads |-> FALSE]
    /\ init_failed = FALSE
    /\ got_unloaded = FALSE

\* a thread leaves the globals and the instances alone
WebLocalStep == UNCHANGED <<corpus_docs, ailo, ailo_ready, inst, init_failed, got_unloaded>>

\* ailo_web.py:84-94 and 69-75: a request arrives at a free thread. A blank
\* chat message is answered 400 at once; a status request calls
\* get_or_create_ailo only `if not ailo_ready`.
ReceiveRequest(t, r) ==
    /\ w_pc[t] \in {"idle", "responded"}
    /\ w_req' = [w_req EXCEPT ![t] = r]
    /\ w_ret' = [w_ret EXCEPT ![t] = 0]
    /\ w_target' = [w_target EXCEPT ![t] = 0]
    /\ w_forwarded' = [w_forwarded EXCEPT ![t] = FALSE]
    /\ w_after_fail' = [w_after_fail EXCEPT ![t] = init_failed]
    /\ IF r.route = "chat" /\ r.blank
         THEN /\ w_resp' = [w_resp EXCEPT ![t] = 400]
              /\ w_pc' = [w_pc EXCEPT ![t] = "responded"]
         ELSE IF r.route = "status" /\ ailo_ready
         THEN /\ w_resp' = [w_resp EXCEPT ![t] = 200]
              /\ w_pc' = [w_pc EXCEPT ![t] = "responded"]
         ELSE /\ w_resp' = [w_resp EXCEPT ![t] = 0]
              /\ w_pc' = [w_pc EXCEPT ![t] = "test_none"]
    /\ WebLocalStep

\* ailo_web.py:39 `if ailo is None:`
TestNone(v) == v = 0

GetOrCreateTest(t) ==
    /\ w_pc[t] = "test_none"
    /\ w_pc' = [w_pc EXCEPT ![t] = IF TestNone(ailo) THEN "construct" ELSE "return_ailo"]
    /\ UNCHANGED <<w_req, w_target, w_ret, w_resp, w_forwarded, w_after_fail>>
    /\ WebLocalStep

\* ailo_web.py:41 `ailo = AILOChatbot()`
GetOrCreateConstruct(t) ==
    /\ w_pc[t] = "construct"
    /\ inst' = Append(inst, NewInstance)
    /\ ailo' = Len(inst) + 1
    /\ w_pc' = [w_pc EXCEPT ![t] = "call_load"]
    /\ UNCHANGED <<corpus_docs, ailo_ready, init_failed, got_unloaded,
                   w_req, w_target, w_ret, w_resp, w_forwarded, w_after_fail>>

\* ailo_web.py:45 `ailo.load_knowledge_base()`: the call is made on whatever
\* the global names now
GetOrCreateCallLoad(t) ==
    /\ w_pc[t] = "call_load"
    /\ w_target' = [w_target EXCEPT ![t] = ailo]
    /\ inst' = [inst EXCEPT ![ailo].load = "loading"]
    /\ w_pc' = [w_pc EXCEPT ![t] = "loading"]
    /\ UNCHANGED <<corpus_docs, ailo, ailo_ready, init_failed, got_unloaded,
                   w_req, w_ret, w_resp, w_forwarded, w_after_fail>>

\* ailo_chatbot.py:160-190: load_knowledge_base reads the corpus, assigns
\* self.knowledge_base, builds the index and returns (an unreadable corpus
\* leaves knowledge_base as it was)
LoadKnowledgeBase(t) ==
    /\ w_pc[t] = "loading"
    /\ inst' = [inst EXCEPT ![w_target[t]] =
                   [load |-> "loaded", knowledge_base |-> corpus_docs, loads |-> @.loads + 1]]
    /\ w_pc' = [w_pc EXCEPT ![t] = "test_kb"]
    /\ UNCHANGED <<corpus_docs, ailo, ailo_ready, init_failed, got_unloaded,
                   w_req, w_target, w_ret, w_resp, w_forwarded, w_after_fail>>

\* ailo_web.py:47-50 `if not ailo.knowledge_base:` ailo_ready = False; return None
\* and otherwise line 53 `ailo_ready = True`
GetOrCreateTestKb(t) ==
    /\ w_pc[t] = "test_kb"
    /\ IF inst[ailo].knowledge_base = 0
         THEN /\ ailo_ready' = FALSE
              /\ init_failed' = TRUE
              /\ w_ret' = [w_ret EXCEPT ![t] = 0]
              /\ w_after_fail' = [w_after_fail EXCEPT ![t] = TRUE]
              /\ w_pc' = [w_pc EXCEPT ![t] = "returned"]
         ELSE /\ ailo_ready' = TRUE
              /\ w_pc' = [w_pc EXCEPT ![t] = "return_ailo"]
              /\ UNCHANGED <<init_failed, w_ret, w_after_fail>>
    /\ UNCHANGED <<corpus_docs, ailo, inst, got_unloaded, w_req, w_target, w_resp, w_forwarded>>

\* ailo_web.py:55 `return ailo`
GetOrCreateReturn(t) ==
    /\ w_pc[t] = "return_ailo"
    /\ w_ret' = [w_ret EXCEPT ![t] = ailo]
    /\ got_unloaded' = (got_unloaded \/ inst[ailo].load # "loaded")
    /\ w_pc' = [w_pc EXCEPT ![t] = "returned"]
    /\ UNCHANGED <<corpus_docs, ailo, ailo_ready, inst, init_failed,
                   w_req, w_target, w_resp, w_forwarded, w_after_fail>>

\* ailo_web.py:98-111 (chat) and 77-81 (status): the handler's answer. An
\* AILOChatbot instance is truthy whatever its knowledge base holds, so
\* `if not ailo_instance` is true for None only; chat() itself returns a
\* string in every case (src/ailo_chatbot.py:592-721), hence 200.
Respond(t) ==
    /\ w_pc[t] = "returned"
    /\ IF w_req[t].route = "chat"
         THEN IF w_ret[t] = 0
                THEN /\ w_resp' = [w_resp EXCEPT ![t] = 503]
                     /\ UNCHANGED w_forwarded
                ELSE /\ w_forwarded' = [w_forwarded EXCEPT ![t] = TRUE]
                     /\ w_resp' = [w_resp EXCEPT ![t] = 200]
         ELSE /\ w_resp' = [w_resp EXCEPT ![t] = 200]
              /\ UNCHANGED w_forwarded
    /\ w_pc' = [w_pc EXCEPT ![t] = "responded"]
    /\ UNCHANGED <<w_req, w_target, w_ret, w_after_fail>>
    /\ WebLocalStep

(* Claims about the web front end *)

\* C3: once lazy initialization has failed (the knowledge base loaded empty),
\* every POST /api/chat with a non-blank message is answered 503, on the
\* request that triggered the initialization and on every later one, and the
\* message is never forwarded to the chatbot's chat operation.
C3_Always503AfterFailedInit ==
    \A t \in Threads :
        (w_pc[t] = "responded" /\ w_req[t].route = "chat" /\ ~w_req[t].blank /\ w_after_fail[t])
            => (w_resp[t] = 503 /\ ~w_forwarded[t])

\* C4: under any interleaving of the request threads at most one chatbot
\* instance is ever constructed, no instance's knowledge base is loaded more
\* than once, and no handler obtains an instance whose load has not finished.
C4_SingleInstanceLoadedOnce ==
    /\ Len(inst) <= 1
    /\ \A i \in 1..Len(inst) : inst[i].loads <= 1
    /\ ~got_unloaded

----------------------------------------------------------------------------
(* AILOChatbot: relevance search and context assembly, src/ailo_chatbot.py *)
(*                                                                         *)
(* A text is represented by what the code reads of it: for each word of a  *)
(* small vocabulary whether (and how often) it occurs, and its length in   *)
(* characters. `x in text` is then "x occurs in the text"; no vocabulary   *)
(* word is a substring of another. Norwegian letters are written in ASCII  *)
(* (lonn for lønn, aar for år, gjor for gjør, sok for søk).                *)

\* the words a user message is made of, with len(word)
QueryWords == {"hvordan", "kokk", "lonn"}
WordLen(w) == CASE w = "hvordan" -> 7 [] w = "kokk" -> 4 [] w = "lonn" -> 4
                [] w = "wage" -> 4 [] w = "yrker" -> 5 [] w = "rorlegger" -> 9
                [] w = "sammenligning" -> 13 [] OTHER -> 6

\* lines 333-337: stop_words
StopWords == {"hva", "er", "det", "som", "en", "et", "til", "for", "paa", "i", "med",
              "av", "om", "aa", "kan", "maa", "skal", "ville", "blir", "har", "hvor",
              "naar", "hvordan", "hvem", "hvilken", "hvilke", "man", "jeg", "du"}

\* line 347: the short words kept although len(word) <= 3
ShortKeyWords == {"lonn", "jobb", "aar", "vgs", "ppu"}

\* line 344: `len(word) > 3`
MinTermLen == 3

\* lines 330-350: _extract_key_terms
ExtractKeyTerms(query) ==
    {w \in query : (WordLen(w) > MinTermLen /\ w \notin StopWords) \/ w \in ShortKeyWords}

\* lines 352-369: _identify_question_type, the first list with a phrase in the query
QuestionTypeOrder == <<"salary", "education_path", "job_duties", "comparison",
                       "definition", "location", "duration">>

TypeTriggers(type) ==
    CASE type = "salary" -> {"lonn", "tjener", "koster", "betaler"}
      [] type = "education_path" -> {"hvordan bli", "hva skal til", "hva kreves", "utdanning"}
      [] type = "job_duties" -> {"hva gjor", "oppgaver", "jobber med", "ansvar"}
      [] type = "comparison" -> {"forskjell", "kontra", "eller"}
      [] type = "definition" -> {"hva betyr", "hva er", "definisjon", "menes med"}
      [] type = "location" -> {"hvor kan", "hvor jobber", "hvor studere"}
      [] type = "duration" -> {"hvor lang", "hvor mange aar", "studiepoeng"}
      [] OTHER -> {}

IdentifyQuestionType(query) ==
    LET hits == {i \in 1..Len(QuestionTypeOrder) : TypeTriggers(QuestionTypeOrder[i]) \cap query # {}}
    IN  IF hits = {} THEN "general"
        ELSE QuestionTypeOrder[CHOOSE i \in hits : \A j \in hits : i <= j]

\* lines 395-403: type_keywords ('general' has none, line 405)
TypeKeywords(type) ==
    CASE type = "salary" -> {"lonn", "salary", "wage", "tjener"}
      [] type = "education_path" -> {"utdanning", "studie", "bachelor", "master", "fagbrev"}
      [] type = "job_duties" -> {"beskrivelse", "oppgaver", "arbeidsoppgaver", "gjor"}
      [] type = "comparison" -> {"sammenligning", "comparison"}
      [] type = "definition" -> {"beskrivelse", "info", "information"}
      [] type = "location" -> {"sted", "hvor", "location", "skoler", "studere"}
      [] type = "duration" -> {"aar", "studiepoeng", "tid", "duration"}
      [] OTHER -> {}

\* text.count(term)
Occurrences(doc, w) == IF w \in DOMAIN doc.text THEN doc.text[w] ELSE 0

\* the sum of f[x] over the domain of f
RECURSIVE SumOf(_)
SumOf(f) ==
    IF DOMAIN f = {} THEN 0
    ELSE LET x == CHOOSE y \in DOMAIN f : TRUE
         IN  f[x] + SumOf([y \in DOMAIN f \ {x} |-> f[y]])

Min(a, b) == IF a < b THEN a ELSE b

\* the numbers of _score_document, lines 385-427
TitleMatchPoints == 10
TextMatchCap == 5
TypeSourcePoints == 8
TypeTextPoints == 2
EndpointPoints == 5
OptimalLengthFrom == 100
LongLengthFrom == 2000

\* lines 420-427: the content-length bonus, added whatever the query is
LengthBonus(doc) ==
    IF OptimalLengthFrom < doc.textlen /\ doc.textlen < LongLengthFrom THEN 2
    ELSE IF doc.textlen >= LongLengthFrom THEN 1 ELSE 0

\* lines 371-433: _score_document (the statements after `return score` on
\* line 433 are never run)
ScoreDocument(doc, key_terms, question_type) ==
    LET term_points == [term \in key_terms |->
            (IF term \in doc.title THEN TitleMatchPoints ELSE 0)
            + (IF Occurrences(doc, term) > 0
                 THEN Min(Occurrences(doc, term), TextMatchCap) ELSE 0)]
        keyword_points == [kw \in TypeKeywords(question_type) |->
            (IF kw \in doc.source \/ kw \in doc.title THEN TypeSourcePoints ELSE 0)
            + (IF Occurrences(doc, kw) > 0 THEN TypeTextPoints ELSE 0)]
        endpoint_matches == {term \in key_terms : term \in doc.source}
    IN  SumOf(term_points)
        + SumOf(keyword_points)
        + (IF endpoint_matches # {} THEN EndpointPoints ELSE 0)
        + LengthBonus(doc)

\* line 310 with `score >= 0`
KeepsScoreMutant(score) == score >= 0

\* line 310: `if score > 0`
KeepsScore(score) == score > 0

\* lines 295-328: search_knowledge_base: score every document, keep those
\* scoring > 0, sort by score descending (list.sort is stable, also with
\* reverse=True), cut to max_results. The result is a sequence of positions
\* in the knowledge base.
SearchKnowledgeBase(kb, query, max_results) ==
    LET key_terms == ExtractKeyTerms(query)
        question_type == IdentifyQuestionType(query)
        score == [i \in 1..Len(kb) |-> ScoreDocument(kb[i], key_terms, question_type)]
        kept == {i \in 1..Len(kb) : KeepsScore(score[i])}
        Before(j, i) == score[j] > score[i] \/ (score[j] = score[i] /\ j < i)
        Rank(i) == 1 + Cardinality({j \in kept : Before(j, i)})
        sorted == [k \in 1..Cardinality(kept) |-> CHOOSE i \in kept : Rank(i) = k]
    IN  SubSeq(sorted, 1, Min(max_results, Len(sorted)))

\* The documents a knowledge base is drawn from: one with no text to speak
\* of, one about something else, and three that hold words a query can ask for.
NoWords == [w \in {} |-> 0]

DocPool ==
    { [id |-> "blank", title |-> {}, text |-> NoWords, source |-> {},
       textlen |-> 40, urllen |-> 20],
      [id |-> "unrelated", title |-> {"rorlegger"}, text |-> ("rorlegger" :> 3),
       source |-> {"yrker"}, textlen |-> 500, urllen |-> 26],
      [id |-> "cook", title |-> {"kokk"}, text |-> ("kokk" :> 6),
       source |-> {"yrker"}, textlen |-> 1500, urllen |-> 26],
      [id |-> "salary", title |-> {}, text |-> ("lonn" :> 1 @@ "kokk" :> 1),
       source |-> {"sammenligning", "lonn"}, textlen |-> 2500, urllen |-> 34],
      [id |-> "wage", title |-> {}, text |-> ("wage" :> 1), source |-> {},
       textlen |-> 80, urllen |-> 20] }

DocOrder == <<"blank", "unrelated", "cook", "salary", "wage">>

\* the knowledge bases: documents of the pool, in the pool's order
KnowledgeBases ==
    LET picks == {S \in SUBSET (1..Len(DocOrder)) : Cardinality(S) <= MaxKbDocs}
        Nth(S, k) == CHOOSE i \in S : Cardinality({j \in S : j < i}) = k - 1
        Doc(name) == CHOOSE d \in DocPool : d.id = name
    IN  { [k \in 1..Cardinality(S) |-> Doc(DocOrder[Nth(S, k)])] : S \in picks }

\* the user messages: any set of the query words (the empty one is a blank message)
Queries == SUBSET QueryWords

\* len() of the literals of _prepare_context: the sentinel of line 457, the
\* header of line 461, the four closing lines 507-510 joined, and the four
\* lines 502-505 of one document's block joined, with title, URL, source
\* and text empty
SentinelLen == 68
ContextHeaderLen == 85
ContextFooterLen == 352
DocBlockLen == 98
\* line 498: `if len(text) > 1000`
TruncateAt == 1000

\* len() of a string made of the words ws, one space between two words
WordsLen(ws) == IF ws = {} THEN 0 ELSE SumOf([w \in ws |-> WordLen(w)]) + Cardinality(ws) - 1

\* lines 442-515: _prepare_context. The context is kept as its kind (the
\* sentinel string or an assembled text), the documents it was built from and
\* len(full_context).
PrepareContext(kb, query, max_results) ==
    LET relevant_docs == SearchKnowledgeBase(kb, query, max_results)
        block == [k \in 1..Len(relevant_docs) |->
                    LET doc == kb[relevant_docs[k]] IN
                    1 + DocBlockLen + WordsLen(doc.title) + doc.urllen + WordsLen(doc.source)
                    + (IF doc.textlen > TruncateAt THEN TruncateAt + 3 ELSE doc.textlen)]
    IN  IF relevant_docs = <<>>
          THEN [kind |-> "sentinel", docs |-> <<>>, len |-> SentinelLen]
          ELSE [kind |-> "docs", docs |-> relevant_docs,
                len |-> ContextHeaderLen + SumOf(block) + 1 + ContextFooterLen]

NoContext == [kind |-> "none", docs |-> <<>>, len |-> 0]

----------------------------------------------------------------------------
(* AILOChatbot.chat, src/ailo_chatbot.py:575-721 *)

\* What the LLM server's answer can be: 200 with a text that holds the
\* citation marker in lower case, capitalised, or not at all; another status;
\* a refused connection; any other exception (a 200 whose body has no
\* choices[0].message.content among them).
Markers == {"none", "kilde:", "Kilde:"}

LLMAnswers ==
    {[status |-> "200", marker |-> m] : m \in Markers}
    \cup {[status |-> s, marker |-> "none"] : s \in {"non200", "connect_error", "exception"}}

\* line 694: assistant_message.lower()
LowerIdentity(m) == m
Lower(m) == IF m = "Kilde:" THEN "kilde:" ELSE m

\* line 694: `"kilde:" not in assistant_message.lower() and len(context) > 100`
DisclaimerFrom == 100
NeedsDisclaimer(marker, context) == Lower(marker) # "kilde:" /\ context.len > DisclaimerFrom

NoReturn == [kind |-> "none", marker |-> "none", disclaimer |-> FALSE]

ChatStart(kb, n) ==
    /\ knowledge_base = kb
    /\ max_context_docs = n
    /\ conversation_history = <<>>
    /\ ch_pc = "idle"
    /\ ch_query = {}
    /\ ch_context = NoContext
    /\ ch_posts = 0
    /\ ch_return = NoReturn
    /\ ch_calls = 0

\* lines 592-679: chat up to `session.post`: the two early returns, else
\* the message list is built and posted
ChatCall(user_message) ==
    /\ ch_pc \in {"idle", "returned"}
    /\ ch_calls < MaxChatCalls
    /\ ch_calls' = ch_calls + 1
    /\ ch_query' = user_message
    /\ IF knowledge_base = <<>>
         THEN /\ ch_return' = [kind |-> "no_kb", marker |-> "none", disclaimer |-> FALSE]
              /\ ch_context' = NoContext
              /\ ch_posts' = 0
              /\ ch_pc' = "returned"
         ELSE LET context == PrepareContext(knowledge_base, user_message, max_context_docs) IN
              /\ ch_context' = context
              /\ IF context.kind = "sentinel"
                   THEN /\ ch_return' = [kind |-> "no_info", marker |-> "none", disclaimer |-> FALSE]
                        /\ ch_posts' = 0
                        /\ ch_pc' = "returned"
                   ELSE /\ ch_return' = NoReturn
                        /\ ch_posts' = 1
                        /\ ch_pc' = "awaiting_llm"
    /\ UNCHANGED <<knowledge_base, max_context_docs, conversation_history>>

\* lines 701-706 with the user message appended whatever the answer
HistoryAfterMutant(history, status, user_message, assistant_message) ==
    IF status = "200"
      THEN history \o << [role |-> "user", content |-> user_message],
                         [role |-> "assistant", content |-> assistant_message] >>
      ELSE Append(history, [role |-> "user", content |-> user_message])

\* lines 684, 701-706: only under `if response.status == 200` are the two
\* messages appended
HistoryAfter(history, status, user_message, assistant_message) ==
    IF status = "200"
      THEN history \o << [role |-> "user", content |-> user_message],
                         [role |-> "assistant", content |-> assistant_message] >>
      ELSE history

\* lines 680-721: the answer arrives (or the post raises)
ChatAnswer(a) ==
    /\ ch_pc = "awaiting_llm"
    /\ ch_pc' = "returned"
    /\ conversation_history' =
          HistoryAfter(conversation_history, a.status, ch_query,
                       <<a.marker, NeedsDisclaimer(a.marker, ch_context)>>)
    /\ IF a.status = "200"
         THEN LET disclaimer == NeedsDisclaimer(a.marker, ch_context) IN
              /\ ch_return' = [kind |-> "reply", marker |-> a.marker, disclaimer |-> disclaimer]
         ELSE /\ ch_return' = [kind |-> CASE a.status = "non200" -> "server_error"
                                          [] a.status = "connect_error" -> "connect_error"
                                          [] OTHER -> "exception",
                               marker |-> "none", disclaimer |-> FALSE]
    /\ UNCHANGED <<knowledge_base, max_context_docs, ch_query, ch_context, ch_posts, ch_calls>>

\* lines 723-727: clear_conversation
ClearConversation ==
    /\ ch_pc \in {"idle", "returned"}
    /\ conversation_history' = <<>>
    /\ UNCHANGED <<knowledge_base, max_context_docs, ch_pc, ch_query, ch_context, ch_posts,
                   ch_return, ch_calls>>

(* Claims about chat *)

\* a document contains a key term of the query, or one of the words that
\* _score_document looks for because of the query's question type
DocMatches(doc, query) ==
    \E w \in ExtractKeyTerms(query) \cup TypeKeywords(IdentifyQuestionType(query)) :
        w \in doc.title \/ w \in doc.source \/ Occurrences(doc, w) > 0

NothingMatches ==
    knowledge_base = <<>> \/ \A i \in 1..Len(knowledge_base) : ~DocMatches(knowledge_base[i], ch_query)

\* C1: when the knowledge base is empty or no document contains any key term
\* or trigger word of the query, the chat call posts nothing to the LLM
\* server and returns one of the two fixed messages.
C1_NoMatchBypassesLLM ==
    (ch_pc # "idle" /\ NothingMatches) =>
        /\ ch_posts = 0
        /\ ch_pc = "returned"
        /\ ch_return.kind \in {"no_kb", "no_info"}

\* C2: a reply the LLM sent with status 200 is returned with the disclaimer
\* appended exactly when it holds "kilde:" in no spelling and the context is
\* longer than 100 characters; a reply that holds it gets no disclaimer.
C2_DisclaimerIffNoCitation ==
    (ch_pc = "returned" /\ ch_return.kind = "reply") =>
        /\ ch_return.disclaimer <=> (ch_return.marker = "none" /\ ch_context.len > 100)
        /\ ch_return.marker \in {"kilde:", "Kilde:"} => ~ch_return.disclaimer

\* the scores of the knowledge base's documents for the query of the last search
SearchScores ==
    [i \in 1..Len(knowledge_base) |->
        ScoreDocument(knowledge_base[i], ExtractKeyTerms(ch_query),
                      IdentifyQuestionType(ch_query))]

PositiveScoring == {i \in 1..Len(knowledge_base) : SearchScores[i] > 0}

\* C15: search_knowledge_base returns only documents whose score is greater
\* than 0, in non-increasing score order, and it returns the min(N, number of
\* positive-scoring documents) highest-scoring of them.
C15_SearchReturnsTopPositive ==
    ch_context.kind \in {"docs", "sentinel"} =>
        LET found == ch_context.docs
            left == PositiveScoring \ {found[k] : k \in 1..Len(found)}
        IN  /\ \A k \in 1..Len(found) : found[k] \in PositiveScoring
            /\ \A k, l \in 1..Len(found) :
                   k < l => /\ SearchScores[found[k]] >= SearchScores[found[l]]
                            /\ found[k] # found[l]
            /\ Len(found) = Min(max_context_docs, Cardinality(PositiveScoring))
            /\ \A i \in left, k \in 1..Len(found) : SearchScores[found[k]] >= SearchScores[i]

\* a search over a knowledge base with a document scoring 0, which returned
\* fewer documents than score above 0 and put a later document first
C15_Witness ==
    /\ ch_context.kind = "docs"
    /\ \E i \in 1..Len(knowledge_base) : SearchScores[i] = 0
    /\ Len(ch_context.docs) < Cardinality(PositiveScoring)
    /\ \E i \in PositiveScoring : i < ch_context.docs[1]

C2_Witness ==
    /\ ch_pc = "returned"
    /\ ch_return = [kind |-> "reply", marker |-> "none", disclaimer |-> TRUE]
    /\ ch_context.kind = "docs"
    /\ ch_context.len > 100

----------------------------------------------------------------------------
(* UtdanningAPIDownloader: the catalog and its classes, src/api_downloader.py *)
(*                                                                          *)
(* A URL is represented by what the code reads of it: its path and whether  *)
(* it holds a '{' and a '}'. `x in url` is "x is the path of the URL".      *)

Url(path, braces) == [path |-> path, lbrace |-> braces, rbrace |-> braces]

\* the descriptors a catalog is drawn from
DescriptorPool ==
    << [method |-> "GET", url |-> Url("/kategorisystemer/nus", FALSE)],
       [method |-> "GET", url |-> Url("/kategorisystemer/styrk98", FALSE)],
       [method |-> "GET", url |-> Url("/karakterkalkulator/points", FALSE)],
       [method |-> "GET", url |-> Url("/sammenligning/arbeidsledighet", FALSE)],
       [method |-> "GET", url |-> Url("/sammenligning/arbeidsledighet", TRUE)],
       [method |-> "GET", url |-> Url("/bedrift", TRUE)],
       [method |-> "POST", url |-> Url("/search/result", FALSE)] >>

\* the catalogs: descriptors of the pool, in the pool's order
Catalogs ==
    LET picks == {S \in SUBSET (1..Len(DescriptorPool)) : Cardinality(S) \in 1..MaxCatalog}
        Nth(S, k) == CHOOSE i \in S : Cardinality({j \in S : j < i}) = k - 1
    IN  { [k \in 1..Cardinality(S) |-> DescriptorPool[Nth(S, k)]] : S \in picks }

\* lines 175-210: needs_params
NeedsParams ==
    {"/sammenligning/lonn", "/sammenligning/arbeidsledighet", "/sammenligning/arbeidsmarked",
     "/sammenligning/entrepenorskap", "/sammenligning/stillinger-yrke",
     "/sammenligning/utdanning-yrke-rr", "/sammenligning/utdanning2yrke",
     "/sammenligning/yrke2utdanning", "/sammenligning/suggest",
     "/search/facet", "/search/result",
     "/finnlarebedrift/result", "/finnlarebedrift/navnesok",
     "/studievelgeren/facet", "/studievelgeren/result",
     "/ovttas/result", "/ovttas/suggest",
     "/karakterkalkulator/points",
     "/onet/onet_by_occupation", "/onet/onet_by_value", "/onet/onet_by_yrke"}

\* lines 164-211: _has_query_parameters_that_need_values
HasQueryParametersThatNeedValues(url) == url.path \in NeedsParams

\* lines 213-223: _is_parameterized_url
IsParameterizedUrl(url) == url.lbrace /\ url.rbrace

\* the positions i of the catalog c, in order, that satisfy P
Positions(c, P(_)) ==
    LET S == {i \in 1..Len(c) : P(c[i])}
    IN  [k \in 1..Cardinality(S) |-> CHOOSE i \in S : Cardinality({j \in S : j < i}) = k - 1]

\* lines 872-880: get_urls, param_urls, simple_urls, query_param_urls
IsGet(d) == d.method = "GET"
IsParamDescriptor(d) == IsGet(d) /\ IsParameterizedUrl(d.url)
IsSimpleDescriptor(d) ==
    IsGet(d) /\ ~IsParameterizedUrl(d.url) /\ ~HasQueryParametersThatNeedValues(d.url)
IsQueryParamDescriptor(d) == IsGet(d) /\ HasQueryParametersThatNeedValues(d.url)

Classify(c) ==
    [get_urls |-> Positions(c, IsGet),
     param_urls |-> Positions(c, IsParamDescriptor),
     simple_urls |-> Positions(c, IsSimpleDescriptor),
     query_param_urls |-> Positions(c, IsQueryParamDescriptor)]

NoClasses == [get_urls |-> <<>>, param_urls |-> <<>>, simple_urls |-> <<>>, query_param_urls |-> <<>>]

\* lines 293-373: what _analyze_downloaded_data_for_parameters can mine from
\* the raw files: for each parameter the number of values found. Of the
\* parameters only uno_id is read for a URL of the DescriptorPool.
MinedValues ==
    [analysed : {TRUE}, uno_id : 0..MaxMined, sektor : {0}, arbeidstid : {0},
     fylke : {0}, fagkode : {0}, occupation : {0}]

\* line 81: self.parameter_values = {}
NoParameterValues ==
    [analysed |-> FALSE, uno_id |-> 0, sektor |-> 0, arbeidstid |-> 0,
     fylke |-> 0, fagkode |-> 0, occupation |-> 0]

\* line 793: `param_combinations[:50]`
MaxCombinations == 50

\* lines 640-787: the parameter combinations of one URL: `missing` for the
\* early return of line 655, else their number
ParamCombinations(url, pv) ==
    LET p == url.path
        specific ==
            CASE p = "/sammenligning/lonn" ->
                     Min(pv.arbeidstid, 3) * Min(pv.sektor, 2) * Min(pv.uno_id, 10)
              [] p \in {"/sammenligning/arbeidsledighet", "/sammenligning/arbeidsmarked",
                        "/sammenligning/entrepenorskap"} -> Min(pv.uno_id, 10)
              [] p \in {"/sammenligning/suggest", "/search/result", "/finnlarebedrift/navnesok",
                        "/ovttas/result"} -> 5
              [] p \in {"/search/facet", "/ovttas/suggest"} -> 4
              [] p = "/finnlarebedrift/result" -> Min(pv.fylke, 5) + Min(pv.fagkode, 5)
              [] p = "/studievelgeren/result" -> Min(pv.fylke, 5)
              [] p = "/karakterkalkulator/points" -> 2
              [] p = "/onet/onet_by_occupation" -> Min(pv.occupation, 10)
              [] p = "/onet/onet_by_yrke" -> Min(pv.uno_id, 10)
              [] OTHER -> 0
        generic ==
            IF p \in {"/search/result", "/search/facet", "/finnlarebedrift/result",
                      "/studievelgeren/result", "/ovttas/result"} THEN 2
            ELSE IF p \in {"/sammenligning/suggest", "/ovttas/suggest"} THEN 2
            ELSE 0
    IN  IF p = "/sammenligning/lonn" /\ (pv.arbeidstid = 0 \/ pv.sektor = 0 \/ pv.uno_id = 0)
          THEN [missing |-> TRUE, n |-> 0]
          ELSE [missing |-> FALSE, n |-> IF specific > 0 THEN specific ELSE generic]

----------------------------------------------------------------------------
(* A download run: download_with_parameterized_support, src/url_processor.py *)
(* lines 282-323, with download_all_endpoints, src/api_downloader.py lines  *)
(* 859-947. Every coroutine handed to gather is a task; a task is           *)
(* "inflight" while it awaits session.get. The counters of self.stats are   *)
(* followed by MakeRequestAttempt; no step of a run reads them.             *)

NoResult == [success |-> FALSE, reason |-> "pending", total_combinations |-> 0,
             successful_combinations |-> 0]

Failure(reason) == [NoResult EXCEPT !.reason = reason]

NewTask(phase, idx) ==
    [phase |-> phase, idx |-> idx, pc |-> "wait", attempt |-> 0, combos |-> 0, combo |-> 0,
     ok |-> 0, result |-> NoResult]

\* the task t once its handler has returned r and `async with` has ended:
\* the handler's locals are gone
Returned(t, r) == [NewTask(t.phase, t.idx) EXCEPT !.pc = "done", !.result = r]

\* lines 896-900, 908-911: one _download_endpoint coroutine per descriptor
NewTasks(phase, positions) == [k \in 1..Len(positions) |-> NewTask(phase, positions[k])]

TasksOf(phase) == {i \in DOMAIN tasks : tasks[i].phase = phase}

\* `await gather(*tasks)`: the phase's coroutines that count for going on
PhaseCompleteMutant(phase) == \A i \in TasksOf(phase) : tasks[i].pc # "wait"

\* `await gather(*tasks)`: every coroutine of the phase has returned
PhaseComplete(phase) == \A i \in TasksOf(phase) : tasks[i].pc = "done"

\* asyncio.Semaphore(n).acquire with one permit too many
SemaphoreFreeMutant(taken, n) == taken <= n

\* asyncio.Semaphore(n).acquire does not block while a permit is left
SemaphoreFree(taken, n) == taken < n

\* lines 530-533 with `except Exception` missing
CaughtMutant(o) == o = "timeout"

\* lines 530-533: `except asyncio.TimeoutError` and `except Exception`
Caught(o) == o \in {"timeout", "exception"}

DlStart(c, m) ==
    /\ catalog = c
    /\ max_concurrent = m
    /\ dl_pc = "start"
    /\ classes = NoClasses
    /\ parameter_values = NoParameterValues
    /\ tasks = <<>>
    /\ held = 0
    /\ summary = [present |-> FALSE]
    /\ templates_left = <<>>

\* lines 870-900: load the catalog (line 137 re-raises), classify, create the
\* semaphore and the simple phase's coroutines
LoadCatalog ==
    /\ dl_pc = "start"
    /\ IF ~catalog.readable
         THEN /\ dl_pc' = "raised"
              /\ UNCHANGED <<classes, tasks>>
         ELSE /\ classes' = Classify(catalog.urls)
              /\ tasks' = NewTasks("simple", classes'.simple_urls)
              /\ dl_pc' = "simple"
    /\ held' = 0
    /\ UNCHANGED <<catalog, max_concurrent, parameter_values, summary, templates_left,
                   retry_attempts, stats>>

\* lines 902-911: the simple phase's gather returns; the query-parameter
\* phase's coroutines are created
FinishSimple ==
    /\ dl_pc = "simple"
    /\ PhaseComplete("simple")
    /\ tasks' = tasks \o NewTasks("query", classes.query_param_urls)
    /\ dl_pc' = "query"
    /\ UNCHANGED <<catalog, max_concurrent, classes, parameter_values, held, summary,
                   templates_left, retry_attempts, stats>>

\* lines 916-926: successful, failed, total_combinations
Successful(phases) == {i \in DOMAIN tasks : tasks[i].phase \in phases /\ tasks[i].result.success}
Failed(phases) == {i \in DOMAIN tasks : tasks[i].phase \in phases /\ ~tasks[i].result.success}

TotalCombinations ==
    SumOf([i \in Successful({"simple", "query"}) |->
              IF tasks[i].result.total_combinations > 0
                THEN tasks[i].result.successful_combinations ELSE 1])

\* lines 929-940
DownloadSummary ==
    [present |-> TRUE,
     total_endpoints |-> Len(catalog.urls),
     simple_endpoints |-> Len(classes.simple_urls),
     query_param_endpoints |-> Len(classes.query_param_urls),
     parameterized_endpoints |-> Len(classes.param_urls),
     successful_downloads |-> Cardinality(Successful({"simple", "query"})),
     failed_downloads |-> Cardinality(Failed({"simple", "query"})),
     total_parameter_combinations |-> TotalCombinations]

\* lines 912-947: the query-parameter phase's gather returns; the summary is
\* computed, saved (line 943; _save_data catches its errors) and returned
FinishQuery ==
    /\ dl_pc = "query"
    /\ PhaseComplete("query")
    /\ summary' = DownloadSummary
    /\ dl_pc' = "returned"
    /\ UNCHANGED <<catalog, max_concurrent, classes, parameter_values, tasks, held,
                   templates_left, retry_attempts, stats>>

\* url_processor.py lines 207, 215-218: match_ids_to_parameterized_urls keeps
\* the templates it built concrete URLs for; 50 of them make a batch
BatchSize == 50

\* url_processor.py lines 196-213: after download_all_endpoints has returned,
\* the Resolver takes the parameterized GET URLs and creates its own
\* semaphore. The results of download_all_endpoints were its locals: the
\* summary is what is left of them.
StartResolver ==
    /\ dl_pc = "returned"
    /\ IF classes.param_urls = <<>>
         THEN /\ dl_pc' = "done"
              /\ UNCHANGED templates_left
         ELSE /\ templates_left' = [k \in 1..Len(classes.param_urls) |->
                                       [idx |-> classes.param_urls[k], drawn |-> FALSE, urls |-> 0]]
              /\ dl_pc' = "resolver"
    /\ held' = 0
    /\ tasks' = [i \in DOMAIN tasks |-> Returned(tasks[i], NoResult)]
    /\ UNCHANGED <<catalog, max_concurrent, classes, parameter_values, summary,
                   retry_attempts, stats>>

\* url_processor.py lines 207, 215-227: the next batch of the next template,
\* once the gather of the batch before has returned. The number of concrete
\* URLs match_ids_to_parameterized_urls built for a template, MaxConcurrent at
\* most here, is drawn when the template's turn comes; a template without
\* concrete URLs is not in url_mappings. The Resolver's own summary (lines
\* 229-246) is not followed: a returned batch leaves no result here.
ResolverBatch ==
    /\ dl_pc = "resolver"
    /\ PhaseComplete("resolver")
    /\ templates_left # <<>>
    /\ LET m == Head(templates_left)
           before == [i \in DOMAIN tasks |-> Returned(tasks[i], NoResult)]
       IN  \E urls \in (IF m.drawn THEN {m.urls} ELSE 0..MaxConcurrent) :
             LET batch == Min(urls, BatchSize)
             IN  /\ tasks' = before \o [k \in 1..batch |-> NewTask("resolver", m.idx)]
                 /\ templates_left' =
                        IF urls > batch
                          THEN <<[m EXCEPT !.drawn = TRUE, !.urls = urls - batch]>>
                                   \o Tail(templates_left)
                          ELSE Tail(templates_left)
    /\ UNCHANGED <<catalog, max_concurrent, dl_pc, classes, parameter_values, held, summary,
                   retry_attempts, stats>>

\* url_processor.py lines 229-246, 309-323: the last gather has returned
ResolverFinish ==
    /\ dl_pc = "resolver"
    /\ PhaseComplete("resolver")
    /\ templates_left = <<>>
    /\ dl_pc' = "done"
    /\ UNCHANGED <<catalog, max_concurrent, classes, parameter_values, tasks, held, summary,
                   templates_left, retry_attempts, stats>>

\* entering `async with semaphore` and running up to the first await. The
\* handlers that return without awaiting give the permit back at once.
\* api_downloader.py lines 574-599, 634-655, 789-805; url_processor.py 259-260
TaskEnter(i) ==
    /\ i \in DOMAIN tasks
    /\ tasks[i].pc = "wait"
    /\ SemaphoreFree(held, max_concurrent)
    /\ LET t == tasks[i]
           url == catalog.urls[t.idx].url
           start(n) == [t EXCEPT !.pc = "rate_sleep", !.combos = n, !.combo = 1]
       IN  IF t.phase = "resolver" \/ ~(IsParameterizedUrl(url) \/ HasQueryParametersThatNeedValues(url))
             THEN /\ tasks' = [tasks EXCEPT ![i] = start(1)]
                  /\ held' = held + 1
                  /\ UNCHANGED parameter_values
           ELSE IF IsParameterizedUrl(url)
             THEN /\ tasks' = [tasks EXCEPT ![i] =
                                  Returned(t, Failure("Parameterized URL - needs ID extraction"))]
                  /\ UNCHANGED <<held, parameter_values>>
           ELSE \E pv \in (IF parameter_values.analysed THEN {parameter_values} ELSE MinedValues) :
                  LET c == ParamCombinations(url, pv)
                  IN  /\ parameter_values' = pv
                      /\ IF c.missing
                           THEN /\ tasks' = [tasks EXCEPT ![i] =
                                                Returned(t, [success |-> TRUE, reason |-> "",
                                                             total_combinations |-> 1,
                                                             successful_combinations |-> 0])]
                                /\ UNCHANGED held
                         ELSE IF c.n = 0
                           THEN /\ tasks' = [tasks EXCEPT ![i] =
                                                Returned(t, Failure("No parameter combinations generated"))]
                                /\ UNCHANGED held
                         ELSE /\ tasks' = [tasks EXCEPT ![i] = start(Min(c.n, MaxCombinations))]
                              /\ held' = held + 1
    /\ UNCHANGED <<catalog, max_concurrent, dl_pc, classes, summary, templates_left,
                   retry_attempts, stats>>

\* `await asyncio.sleep(self.rate_limit)` is over; _make_request starts its
\* first attempt (lines 517-521)
TaskWake(i) ==
    /\ i \in DOMAIN tasks
    /\ tasks[i].pc = "rate_sleep"
    /\ tasks' = [tasks EXCEPT ![i].pc = "inflight"]
    /\ UNCHANGED <<catalog, max_concurrent, dl_pc, classes, parameter_values, held, summary,
                   templates_left, retry_attempts, stats>>

\* the handler has the outcome of one URL or parameter combination: the next
\* combination (line 793), or the handler's result and the end of `async with`
ComboDone(t, saved) ==
    LET ok == IF saved THEN t.ok + 1 ELSE t.ok
    IN  IF t.combo < t.combos
          THEN [t EXCEPT !.pc = "rate_sleep", !.combo = @ + 1, !.ok = ok, !.attempt = 0]
        ELSE IF t.phase = "query"
          THEN Returned(t, [success |-> TRUE, reason |-> "", total_combinations |-> t.combos,
                            successful_combinations |-> ok])
        ELSE Returned(t, IF saved THEN [NoResult EXCEPT !.success = TRUE, !.reason = ""]
                               ELSE Failure("Request failed"))

\* line 517 after an attempt that did not return: the next attempt, or the
\* None of line 539
AttemptOver(t) ==
    IF t.attempt + 1 < retry_attempts
      THEN [t EXCEPT !.attempt = @ + 1, !.pc = "inflight"]
      ELSE ComboDone(t, FALSE)

Releases(before, after) == IF after.pc \in {"done", "raised"} /\ before.pc # "wait" THEN 1 ELSE 0

\* lines 541-559: _save_data is called for the data of a 200 only, and
\* returns True or, when writing fails, False
SaveOutcomes(o) == IF ReturnsData(o) THEN BOOLEAN ELSE {FALSE}

\* session.get answers with outcome o; on a 200 the data is saved, which
\* works or not (_save_data, lines 541-559)
TaskResponse(i, o, saved) ==
    /\ i \in DOMAIN tasks
    /\ tasks[i].pc = "inflight"
    /\ LET t == tasks[i]
           after ==
               IF ReturnsData(o) THEN ComboDone(t, saved)
               ELSE IF o \in TransportFailures /\ ~Caught(o)
                 THEN [NewTask(t.phase, t.idx) EXCEPT !.pc = "raised"]
               ELSE IF SleepsAfter(o, t.attempt, retry_attempts) THEN [t EXCEPT !.pc = "backoff"]
               ELSE AttemptOver(t)
       IN  /\ tasks' = [tasks EXCEPT ![i] = after]
           /\ held' = held - Releases(t, after)
           /\ dl_pc' = IF after.pc = "raised" /\ t.phase # "resolver" THEN "raised" ELSE dl_pc
    /\ UNCHANGED <<catalog, max_concurrent, classes, parameter_values, summary, templates_left,
                   retry_attempts, stats>>

\* line 536: the backoff sleep is over
TaskBackoff(i) ==
    /\ i \in DOMAIN tasks
    /\ tasks[i].pc = "backoff"
    /\ LET after == AttemptOver(tasks[i])
       IN  /\ tasks' = [tasks EXCEPT ![i] = after]
           /\ held' = held - Releases(tasks[i], after)
    /\ UNCHANGED <<catalog, max_concurrent, dl_pc, classes, parameter_values, summary,
                   templates_left, retry_attempts, stats>>

----------------------------------------------------------------------------
(* Properties of a download run *)

InFlight == {i \in DOMAIN tasks : tasks[i].pc = "inflight"}

\* C7: at every moment of a download run the number of HTTP requests in
\* flight is at most max_concurrent, in the simple phase, the query-parameter
\* phase and the Resolver's phase alike.
C7_InFlightBounded == Cardinality(InFlight) <= max_concurrent

\* the Resolver's phase with as many requests in flight as the semaphore
\* allows and a further coroutine kept waiting
C7_Witness ==
    /\ dl_pc = "resolver"
    /\ Cardinality(InFlight) = max_concurrent
    /\ \E i \in TasksOf("resolver") : tasks[i].pc = "wait"

AllReturned(phase, positions) ==
    /\ Cardinality(TasksOf(phase)) = Len(positions)
    /\ \A i \in TasksOf(phase) : tasks[i].pc = "done"

\* C8: no query-parameter-phase request starts before every simple-phase
\* request has completed, and no Resolver request starts before every
\* simple-phase and query-parameter-phase request has completed.
C8_PhasesSequential ==
    \A i \in InFlight :
        /\ tasks[i].phase = "query" => AllReturned("simple", classes.simple_urls)
        /\ tasks[i].phase = "resolver" =>
               /\ AllReturned("simple", classes.simple_urls)
               /\ AllReturned("query", classes.query_param_urls)

\* a Resolver request in flight in a run that had a simple endpoint and a
\* query-parameter endpoint with requests of its own
C8_Witness ==
    /\ \E i \in InFlight : tasks[i].phase = "resolver"
    /\ TasksOf("simple") # {}
    /\ \E j \in TasksOf("query") :
           catalog.urls[tasks[j].idx].url = Url("/karakterkalkulator/points", FALSE)

GetPositions == {k \in 1..Len(catalog.urls) : IsGet(catalog.urls[k])}

InClass(k, positions) == \E n \in 1..Len(positions) : positions[n] = k

ClassesOf(k) ==
    {c \in {"simple_urls", "query_param_urls", "param_urls"} : InClass(k, classes[c])}

\* C9: every GET descriptor of the catalog belongs to exactly one of the
\* classes path-parameterized, query-parameter-required and simple, a URL
\* with a placeholder that also matches the allow-list being
\* path-parameterized only, so the three class counts of the summary sum to
\* the number of GET descriptors.
C9_ClassesPartitionGets ==
    summary.present =>
        /\ \A k \in GetPositions : Cardinality(ClassesOf(k)) = 1
        /\ \A k \in GetPositions :
               IsParameterizedUrl(catalog.urls[k].url) => ClassesOf(k) = {"param_urls"}
        /\ summary.simple_endpoints + summary.query_param_endpoints
               + summary.parameterized_endpoints = Cardinality(GetPositions)

HasResult(phase, k) ==
    \E i \in TasksOf(phase) :
        /\ tasks[i].idx = k
        /\ tasks[i].pc = "done"
        /\ tasks[i].result.reason # "pending"

\* C10: whatever requests fail (non-200, timeout, transport exception or
\* file-save error), download_all_endpoints attempts every simple and
\* query-parameter endpoint, raises nothing and returns a summary; only a
\* failure to load the catalog propagates.
C10_FailuresDoNotAbort ==
    /\ dl_pc = "raised" => ~catalog.readable
    /\ \A i \in DOMAIN tasks : tasks[i].pc # "raised"
    /\ dl_pc \in {"start", "simple", "query"} => ~summary.present
    /\ dl_pc = "returned" =>
           /\ summary.present
           /\ \A n \in 1..Len(classes.simple_urls) : HasResult("simple", classes.simple_urls[n])
           /\ \A n \in 1..Len(classes.query_param_urls) :
                  HasResult("query", classes.query_param_urls[n])
           /\ summary.successful_downloads + summary.failed_downloads
                  = Len(classes.simple_urls) + Len(classes.query_param_urls)

\* the run has returned its summary although a simple endpoint failed, and a
\* query-parameter endpoint after it lost one combination and saved another
C10_Witness ==
    /\ dl_pc = "returned"
    /\ summary.failed_downloads > 0
    /\ \E i \in TasksOf("simple") : tasks[i].result.reason = "Request failed"
    /\ \E j \in TasksOf("query") :
           /\ tasks[j].result.success
           /\ tasks[j].result.successful_combinations > 0
           /\ tasks[j].result.successful_combinations < tasks[j].result.total_combinations

\* C30: the Download Result of a query-parameter endpoint has success true
\* only if at least one of its parameter combinations was downloaded and
\* saved, so successful_downloads in the Download Summary never counts an
\* endpoint for which every request failed.
C30_QuerySuccessNeedsADownload ==
    /\ \A i \in TasksOf("query") :
          tasks[i].result.success => tasks[i].result.successful_combinations > 0
    /\ dl_pc = "returned" =>
          summary.successful_downloads =
             Cardinality({i \in Successful({"simple", "query"}) :
                             tasks[i].phase = "query" =>
                                tasks[i].result.successful_combinations > 0})

\* the summary counts a query-parameter endpoint all of whose requests failed
AllFailedCountedSuccessful ==
    /\ dl_pc = "returned"
    /\ summary.successful_downloads > 0
    /\ \E i \in TasksOf("query") :
          /\ tasks[i].result.success
          /\ tasks[i].result.total_combinations > 1
          /\ tasks[i].result.successful_combinations = 0

----------------------------------------------------------------------------
(* UtdanningDataPipeline and the pipeline CLI, src/main.py *)

Phases == <<"download", "processing", "extraction">>

PhaseNames == {Phases[k] : k \in 1..Len(Phases)}

PhaseOutcomes == {"returns", "raises"}

\* lines 115, 149, 182: the total a phase stores from its summary
StatOf(phase) ==
    CASE phase = "download" -> "total_files_downloaded"
      [] phase = "processing" -> "total_records_processed"
      [] phase = "extraction" -> "total_documents_created"

\* lines 54-63
NewPipelineStats ==
    [phases_completed |-> <<>>, total_files_downloaded |-> 0, total_records_processed |-> 0,
     total_documents_created |-> 0, errors |-> <<>>]

PlStart(mode) ==
    /\ pl_mode = mode
    /\ pl_pc = IF mode = "full" THEN "download" ELSE mode
    /\ pipeline_stats = NewPipelineStats
    /\ pl_started = <<>>
    /\ pl_raised = "none"
    /\ summary_file = [written |-> FALSE]
    /\ exit_code = -1

\* the `raise` that ends a phase's except clause, left out
ReraisesMutant(outcome) == FALSE

\* lines 127, 161, 193: the `raise` that ends a phase's except clause
Reraises(outcome) == outcome = "raises"

\* lines 214-220: where run_complete_pipeline goes on after a phase returned
AfterPhase(phase) ==
    CASE phase = "download" -> "processing"
      [] phase = "processing" -> "extraction"
      [] phase = "extraction" -> "summary"

\* lines 93-193: run_download_phase, run_processing_phase and
\* run_extraction_phase. The phase's work returns a summary with total n, or
\* raises; then the try's bookkeeping or the except clause runs. In a full
\* run the exception reaches the except clause of run_complete_pipeline (line
\* 245), under a single-phase flag that of main (line 417).
RunPhase(phase, outcome, n) ==
    /\ pl_pc = phase
    /\ pl_started' = Append(pl_started, phase)
    /\ IF outcome = "returns"
         THEN /\ pipeline_stats' = [pipeline_stats EXCEPT
                                       !.phases_completed = Append(@, phase),
                                       ![StatOf(phase)] = n]
              /\ UNCHANGED pl_raised
         ELSE /\ pipeline_stats' = [pipeline_stats EXCEPT !.errors = Append(@, phase)]
              /\ pl_raised' = phase
    /\ pl_pc' = IF Reraises(outcome)
                  THEN (IF pl_mode = "full" THEN "except" ELSE "main_except")
                  ELSE (IF pl_mode = "full" THEN AfterPhase(phase) ELSE "main_report")
    /\ UNCHANGED <<pl_mode, summary_file, exit_code>>

\* lines 222-243: the summary of a run whose phases all returned is built and
\* written to complete_pipeline_summary.json; building or writing it can raise
WriteCompleteSummary(written) ==
    /\ pl_pc = "summary"
    /\ IF written
         THEN /\ summary_file' = [written |-> TRUE, success |-> TRUE,
                                  pipeline_stats |-> pipeline_stats]
              /\ pl_pc' = "main_report"
         ELSE /\ pl_pc' = "except"
              /\ UNCHANGED summary_file
    /\ UNCHANGED <<pl_mode, pipeline_stats, pl_started, pl_raised, exit_code>>

\* lines 245-256: the except clause of run_complete_pipeline builds the error
\* summary, logs and returns it
ReturnErrorSummary ==
    /\ pl_pc = "except"
    /\ pl_pc' = "main_report"
    /\ UNCHANGED <<pl_mode, pipeline_stats, pl_started, pl_raised, summary_file, exit_code>>

\* lines 408-418: main prints its message and returns, or its except clause
\* calls sys.exit(1)
MainExit ==
    /\ pl_pc \in {"main_report", "main_except"}
    /\ exit_code' = IF pl_pc = "main_except" THEN 1 ELSE 0
    /\ pl_pc' = "exited"
    /\ UNCHANGED <<pl_mode, pipeline_stats, pl_started, pl_raised, summary_file>>

IsPrefix(s, t) == Len(s) <= Len(t) /\ \A k \in 1..Len(s) : s[k] = t[k]

\* C11: in a full-pipeline run, when a phase raises, its error is appended to
\* the error list and no later phase is started, so phases_completed is at
\* every moment a prefix of [download, processing, extraction].
C11_PhasesCompletedIsPrefix ==
    pl_mode = "full" =>
        /\ IsPrefix(pipeline_stats.phases_completed, Phases)
        /\ IsPrefix(pl_started, Phases)
        /\ pl_raised # "none" =>
               /\ pipeline_stats.errors = <<pl_raised>>
               /\ pl_started = Append(pipeline_stats.phases_completed, pl_raised)
               /\ pl_pc \in {"except", "main_report", "exited"}

\* a full run that is over, whose processing phase raised after the download
\* phase had returned
C11_Witness ==
    /\ pl_mode = "full"
    /\ pl_pc = "exited"
    /\ pl_raised = "processing"
    /\ pipeline_stats.phases_completed = <<"download">>

\* C12: every full-pipeline run writes complete_pipeline_summary.json with the
\* statistics gathered so far, when all phases succeed and when one fails.
C12_SummaryAlwaysWritten ==
    (pl_mode = "full" /\ pl_pc = "exited") =>
        /\ summary_file.written
        /\ summary_file.pipeline_stats = pipeline_stats

\* C13: when a phase fails in a full-pipeline invocation, the process exits
\* with a non-zero status.
C13_FailureExitsNonZero ==
    (pl_mode = "full" /\ pl_pc = "exited" /\ pl_raised # "none") => exit_code # 0

----------------------------------------------------------------------------
(* AILODataScheduler, src/ailo_scheduler.py *)

\* lines 61-81: how subprocess.run of the pipeline can end
SubprocessOutcomes == {"exit_zero", "exit_nonzero", "timeout", "exception"}

\* lines 78-79 alone: `except Exception` left out
JobCatchesMutant(outcome) == outcome = "timeout"

\* lines 78-81: `except subprocess.TimeoutExpired` and `except Exception`
JobCatches(outcome) == outcome \in {"timeout", "exception"}

\* lines 67-81: what run_data_pipeline logs
LoggedAs(outcome) ==
    CASE outcome = "exit_zero" -> "completed successfully"
      [] outcome = "exit_nonzero" -> "failed with code"
      [] outcome = "timeout" -> "timed out"
      [] outcome = "exception" -> "error running"

\* lines 117-129: schedule_custom_time, then run_scheduler is entered
ScStart ==
    /\ sc_pc = "run_pending"
    /\ sc_now = 0
    /\ next_run = SleepsPerDay
    /\ sc_log = <<>>

\* line 135: schedule.run_pending() with no job due
RunPendingIdle ==
    /\ sc_pc = "run_pending"
    /\ sc_now < next_run
    /\ sc_pc' = "sleep"
    /\ UNCHANGED <<sc_now, next_run, sc_log>>

\* line 135 with the job due: run_data_pipeline (lines 51-81) runs the
\* pipeline and logs how it ended; the job is scheduled for the next day. An
\* exception that leaves run_data_pipeline leaves run_pending and is caught
\* by line 140, which ends the loop.
RunPendingJob(outcome) ==
    /\ sc_pc = "run_pending"
    /\ sc_now >= next_run
    /\ IF outcome \in {"timeout", "exception"} /\ ~JobCatches(outcome)
         THEN /\ sc_pc' = "stopped"
              /\ UNCHANGED <<next_run, sc_log>>
         ELSE /\ sc_log' = Append(sc_log, LoggedAs(outcome))
              /\ next_run' = next_run + SleepsPerDay
              /\ sc_pc' = "sleep"
    /\ UNCHANGED sc_now

\* line 136: time.sleep(60)
SchedulerSleep ==
    /\ sc_pc = "sleep"
    /\ sc_now < MaxSleeps
    /\ sc_now' = sc_now + 1
    /\ sc_pc' = "run_pending"
    /\ UNCHANGED <<next_run, sc_log>>

\* the scheduled times that have come
ScheduledTimesUpTo(t) == {k \in 1..t : k % SleepsPerDay = 0}

\* C14: after a pipeline subprocess ends with a non-zero exit code, with the
\* timeout or with any other exception, the scheduler loop keeps running and
\* the pipeline is invoked again at the next scheduled time.
C14_SchedulerSurvivesFailures ==
    /\ sc_pc # "stopped"
    /\ next_run = SleepsPerDay * (Len(sc_log) + 1)
    /\ sc_pc = "sleep" => Len(sc_log) = Cardinality(ScheduledTimesUpTo(sc_now))
    /\ sc_pc = "run_pending" => Len(sc_log) >= Cardinality(ScheduledTimesUpTo(sc_now)) - 1

\* a run that failed in each of the three ways, and a run after them
C14_Witness ==
    /\ Len(sc_log) >= 4
    /\ {"failed with code", "timed out", "error running"} = {sc_log[k] : k \in 1..3}

----------------------------------------------------------------------------
(* AILOEvaluationFramework: scoring a response,                            *)
(* src/ailo_evaluation_framework.py:148-265. The framework owns a chatbot  *)
(* of its own (line 86), whose conversation history starts empty.          *)

\* response lengths around the thresholds of lines 246 and 253
ResponseLengths == {0, 99, 100, 199, 200, 2000, 2001}

\* lines 217-225: the arguments of _calculate_score; evaluate_question
\* computes them from the response (lines 166-199)
ScoreArgs ==
    [has_source : BOOLEAN, has_relevant_content : BOOLEAN, is_honest : BOOLEAN,
     contains_data : BOOLEAN, response_length : ResponseLengths,
     keywords_count : 0..MaxKeywords]

NoScoreArgs ==
    [has_source |-> FALSE, has_relevant_content |-> FALSE, is_honest |-> FALSE,
     contains_data |-> FALSE, response_length |-> 0, keywords_count |-> 0]

\* src/ailo_chatbot.py:592-721: how chat returns: with the two messages of the
\* exchange appended to the history (lines 701-706), or early or with an error
\* text and the history as it was (lines 596, 610, 714, 718, 721)
ChatReturns == [appends : BOOLEAN, omformulere : BOOLEAN]

\* line 86: a new AILOChatbot
EvStart ==
    /\ ailo_history = <<>>
    /\ ev_pc = "idle"
    /\ ev_args = NoScoreArgs
    /\ ev_score = -1

\* line 161: `response = await self.ailo.chat(question)`
EvaluateQuestion(r) ==
    /\ ev_pc # "responded"
    /\ r.appends => Len(ailo_history) + 2 <= MaxHistory
    /\ ev_pc' = "responded"
    /\ ailo_history' =
          IF r.appends
            THEN ailo_history \o << [role |-> "user", omformulere |-> FALSE],
                                    [role |-> "assistant", omformulere |-> r.omformulere] >>
            ELSE ailo_history
    /\ UNCHANGED <<ev_args, ev_score>>

\* lines 239-249: the branch of a response with sources
SourceScore(a) ==
    40 + (IF a.has_relevant_content THEN 20 ELSE 0)
       + (IF a.contains_data THEN 20 ELSE 0)
       + (IF 200 <= a.response_length /\ a.response_length <= 2000 THEN 10 ELSE 0)
       + (IF a.keywords_count >= 3 THEN 10 ELSE 0)

\* lines 250-256: the branch of an honest response; line 255 reads
\* conversation_history[-1]
HonestScore(a, history) ==
    30 + (IF a.response_length >= 100 THEN 20 ELSE 0)
       + (IF history[Len(history)].omformulere THEN 10 ELSE 0)

\* lines 257-263: the branch of a response that is neither
NeitherScore(a) ==
    (IF a.has_relevant_content THEN 10 ELSE 0) + (IF a.contains_data THEN 10 ELSE 0)

\* lines 239, 250, 257: if has_source / elif is_honest / else
Branch(a) ==
    IF a.has_source THEN "has_source" ELSE IF a.is_honest THEN "honest" ELSE "neither"

\* line 255: conversation_history[-1] of an empty list raises IndexError
RaisesIndexError(a, history) == Branch(a) = "honest" /\ history = <<>>

\* lines 217-265: _calculate_score, called at lines 191-198
CalculateScore(a) ==
    /\ ev_pc = "responded"
    /\ ev_args' = a
    /\ IF RaisesIndexError(a, ailo_history)
         THEN /\ ev_pc' = "raised"
              /\ ev_score' = -1
         ELSE LET score == CASE Branch(a) = "has_source" -> SourceScore(a)
                             [] Branch(a) = "honest" -> HonestScore(a, ailo_history)
                             [] OTHER -> NeitherScore(a)
              IN  /\ ev_pc' = "scored"
                  /\ ev_score' = Min(score, 100)
    /\ UNCHANGED ailo_history

(* Claims about scoring *)

\* C16: for every combination of the six arguments and every state of the
\* chatbot's conversation history, the empty one included, _calculate_score
\* returns a value in [0, 100], and exactly one branch contributes to it: the
\* has-source branch if has_source, otherwise the honest branch if is_honest,
\* otherwise the neither branch.
C16_ScoreInRangeOneBranch ==
    ev_pc \in {"scored", "raised"} =>
        /\ ev_pc = "scored"
        /\ ev_score \in 0..100
        /\ ev_score = IF ev_args.has_source THEN SourceScore(ev_args)
                      ELSE IF ev_args.is_honest THEN HonestScore(ev_args, ailo_history)
                      ELSE NeitherScore(ev_args)

----------------------------------------------------------------------------
(* AILOEvaluationFramework: choosing the questions of a run,               *)
(* src/ailo_evaluation_framework.py:282-340. load_questions returns        *)
(* distinct questions (lines 115-122); a question is represented by its    *)
(* position in that list and by the category categorize_question gives it. *)

\* lines 56-69, 135: three of the categories categorize_question can return
QuestionCategories == {"salary", "definition", "general"}

QuestionPools == UNION {[1..n -> QuestionCategories] : n \in 1..MaxQuestions}

Elements(seq) == {seq[k] : k \in 1..Len(seq)}

\* the sequences of n distinct elements of S: what random.sample(S, n) can return
RECURSIVE Samples(_, _)
Samples(S, n) ==
    IF n = 0 THEN {<<>>}
    ELSE UNION {{Append(f, x) : x \in S \ Elements(f)} : f \in Samples(S, n - 1)}

\* lines 321-324: the questions of a category
InCategory(p, cat) == {i \in 1..Len(p) : p[i] = cat}

\* lines 321-324: the keys of `categorized`, in insertion order: the order in
\* which the categories first occur in the pool
CategoryOrder(p) ==
    LET present == Elements(p)
        First(c) == CHOOSE i \in InCategory(p, c) : \A j \in InCategory(p, c) : i <= j
    IN  [k \in 1..Cardinality(present) |->
            CHOOSE c \in present : Cardinality({d \in present : First(d) < First(c)}) = k - 1]

\* line 327: per_category = max(1, target_count // len(categorized))
PerCategory(p, target_count) ==
    LET k == target_count \div Cardinality(Elements(p)) IN IF k > 1 THEN k ELSE 1

\* line 336 with `remaining = questions`
RemainingMutant(p, s) == 1..Len(p)

\* line 336: remaining = [q for q in questions if q not in sampled]
Remaining(p, s) == (1..Len(p)) \ Elements(s)

\* lines 330-331: the size and the source of a category's sample
CategorySamples ==
    IF categorized = <<>> THEN {}
    ELSE LET cat_questions == InCategory(pool, Head(categorized))
         IN  Samples(cat_questions,
                     Min(PerCategory(pool, max_questions), Cardinality(cat_questions)))

\* lines 335-338: the size and the source of the fill step's sample
FillSamples ==
    IF Len(sampled) < max_questions
      THEN LET remaining == Remaining(pool, sampled)
           IN  Samples(remaining, Min(max_questions - Len(sampled), Cardinality(remaining)))
      ELSE {<<>>}

SmStart(p, cap, flag) ==
    /\ pool = p
    /\ questions = [i \in 1..Len(p) |-> i]
    /\ max_questions = cap
    /\ sample_categories = flag
    /\ sm_pc = "loaded"
    /\ categorized = <<>>
    /\ sampled = <<>>
    /\ additional = 0

\* lines 282-289: run_evaluation up to the choice of the questions; lines
\* 321-328 of _sample_by_category when it is called
SelectQuestions ==
    /\ sm_pc = "loaded"
    /\ IF max_questions # 0 /\ max_questions < Len(questions)
         THEN IF sample_categories
                THEN /\ sm_pc' = "sampling"
                     /\ categorized' = CategoryOrder(pool)
                     /\ UNCHANGED questions
                ELSE /\ sm_pc' = "selected"
                     /\ questions' = SubSeq(questions, 1, max_questions)
                     /\ UNCHANGED categorized
         ELSE /\ sm_pc' = "selected"
              /\ UNCHANGED <<questions, categorized>>
    /\ UNCHANGED <<pool, max_questions, sample_categories, sampled, additional>>

\* lines 330-332: one iteration of the loop over the categories
SampleCategory(chosen) ==
    /\ sm_pc = "sampling"
    /\ categorized # <<>>
    /\ chosen \in CategorySamples
    /\ sampled' = sampled \o chosen
    /\ categorized' = Tail(categorized)
    /\ UNCHANGED <<questions, pool, max_questions, sample_categories, sm_pc, additional>>

\* lines 334-340: the fill step and `return sampled[:target_count]`, assigned
\* to `questions` at line 287
FillAndReturn(chosen) ==
    /\ sm_pc = "sampling"
    /\ categorized = <<>>
    /\ chosen \in FillSamples
    /\ additional' = Len(chosen)
    /\ sampled' = sampled \o chosen
    /\ questions' = SubSeq(sampled', 1, Min(max_questions, Len(sampled')))
    /\ sm_pc' = "selected"
    /\ UNCHANGED <<pool, max_questions, sample_categories, categorized>>

(* Claims about the choice of questions *)

\* the run sampled by category: the cap is smaller than the pool and
\* sample_categories is set
SampledByCategory ==
    sm_pc = "selected" /\ sample_categories /\ max_questions # 0 /\ max_questions < Len(pool)

\* C17: given a pool of distinct questions spanning K categories and a cap
\* max_questions smaller than the pool size, category sampling returns exactly
\* max_questions questions with no duplicates, and at least
\* min(floor(max_questions/K), size of the category) of them come from each
\* category.
C17_SampleSizeAndSpread ==
    SampledByCategory =>
        LET K == Cardinality(Elements(pool)) IN
        /\ Len(questions) = max_questions
        /\ \A k, l \in 1..Len(questions) : k # l => questions[k] # questions[l]
        /\ \A cat \in Elements(pool) :
              Cardinality(Elements(questions) \cap InCategory(pool, cat))
                 >= Min(max_questions \div K, Cardinality(InCategory(pool, cat)))

\* a sampled run over two or more categories, one of them smaller than its
\* share and one larger, in which the fill step added a question
C17_Witness ==
    /\ SampledByCategory
    /\ Cardinality(Elements(pool)) >= 2
    /\ additional > 0
    /\ \E cat \in Elements(pool) :
          Cardinality(InCategory(pool, cat)) < max_questions \div Cardinality(Elements(pool))
    /\ \E cat \in Elements(pool) :
          Cardinality(InCategory(pool, cat)) > max_questions \div Cardinality(Elements(pool))

----------------------------------------------------------------------------
(* URLProcessor.extract_ids_from_data.is_valid_id, src/url_processor.py:51-61 *)
(*                                                                          *)
(* A string is a sequence of runs, a run being n characters of one class:   *)
(* "y" one of the letters y, u, v; "a" another letter; "1" a digit; and the *)
(* characters "-", "_", ".", ";" and "/". "y_sykepleier" is                 *)
(* <<[ch |-> "y", n |-> 1], [ch |-> "_", n |-> 1], [ch |-> "a", n |-> 4]>>  *)
(* up to the number of letters after the prefix.                            *)

CharClasses == {"y", "a", "1", "-", "_", ".", ";", "/"}

\* run lengths that reach both sides of the limits of lines 53 and 56
RunLengths == {1, 4, 40}

Strings == UNION {[1..k -> [ch : CharClasses, n : RunLengths]] : k \in 0..MaxRuns}

\* len(val)
RECURSIVE StrLen(_)
StrLen(val) == IF val = <<>> THEN 0 ELSE Head(val).n + StrLen(Tail(val))

\* val.count(c)
RECURSIVE Count(_, _)
Count(val, c) ==
    IF val = <<>> THEN 0
    ELSE (IF Head(val).ch = c THEN Head(val).n ELSE 0) + Count(Tail(val), c)

\* the string is the two characters of "y_", "u_" or "v_"
IsBarePrefix(val) ==
    /\ Len(val) = 2
    /\ val[1] = [ch |-> "y", n |-> 1]
    /\ val[2] = [ch |-> "_", n |-> 1]

\* line 59: re.match(r'^(y_|u_|v_|[0-9]+|[a-zA-Z0-9-]+)$', val): the whole
\* string is "y_", "u_" or "v_", or digits only, or letters, digits and hyphens
MatchesIdPattern(val) ==
    \/ IsBarePrefix(val)
    \/ val # <<>> /\ \A k \in 1..Len(val) : val[k].ch = "1"
    \/ val # <<>> /\ \A k \in 1..Len(val) : val[k].ch \in {"y", "a", "1", "-"}

\* lines 51-61: is_valid_id
IsValidId(val) ==
    IF val = <<>> \/ StrLen(val) > 40 THEN FALSE
    ELSE IF Count(val, "_") > 4 \/ Count(val, ".") > 2 \/ Count(val, ";") > 0 THEN FALSE
    ELSE MatchesIdPattern(val)

\* lines 73-74, 86-87: `if is_valid_id(str_val)`: the call
IdStart(val) ==
    /\ id_val = val
    /\ id_pc = "called"
    /\ id_valid = FALSE

\* lines 51-61: the call returns
CheckId ==
    /\ id_pc = "called"
    /\ id_pc' = "returned"
    /\ id_valid' = IsValidId(id_val)
    /\ UNCHANGED id_val

(* Claims about is_valid_id *)

\* the string starts with "y_", "u_" or "v_"
IsPrefixed(val) ==
    /\ Len(val) >= 2
    /\ val[1] = [ch |-> "y", n |-> 1]
    /\ val[2].ch = "_"

IsNumeric(val) == val # <<>> /\ \A k \in 1..Len(val) : val[k].ch = "1"

IsAlphanumericWithHyphens(val) ==
    val # <<>> /\ \A k \in 1..Len(val) : val[k].ch \in {"y", "a", "1", "-"}

\* C18: the validity check accepts every string of at most 40 characters with at
\* most 4 underscores, at most 2 dots and no semicolon that is numeric,
\* alphanumeric-with-hyphens, or prefixed y_/u_/v_ (for example "y_sykepleier"),
\* and rejects every string that is longer than 40 characters, contains a
\* semicolon, or contains 5 or more underscores.
C18_ValidIdAcceptsAndRejects ==
    id_pc = "returned" =>
    /\ ( /\ StrLen(id_val) <= 40
         /\ Count(id_val, "_") <= 4
         /\ Count(id_val, ".") <= 2
         /\ Count(id_val, ";") = 0
         /\ IsNumeric(id_val) \/ IsAlphanumericWithHyphens(id_val) \/ IsPrefixed(id_val) )
       => id_valid
    /\ (StrLen(id_val) > 40 \/ Count(id_val, ";") > 0 \/ Count(id_val, "_") >= 5)
       => ~id_valid

----------------------------------------------------------------------------
(* The repair scripts: src/fix_422_errors.py, src/apply_all_422_fixes.py,  *)
(* src/fix_404_errors.py, src/fix_yrke_urls.py. An entry of a URL list is  *)
(* represented by its URL without "https://api.utdanning.no/"; a file by   *)
(* whether it exists and by the list it holds: the entries of a JSON file, *)
(* the counts written to a report.                                         *)

Scripts == {"fix_422_errors", "apply_all_422_fixes", "fix_404_errors", "fix_yrke_urls"}

\* URLs that the scripts treat differently
RepairUrlPool ==
    {"kategorisystemer/nus", "ovttas/emne", "vov/fagkode_velger", "sammenligning/yrke",
     "ovttas/result", "search/facet?facet=type", "finnlarebedrift/bedrift/{id}", "search_logs"}

UrlLists == UNION {[1..n -> RepairUrlPool] : n \in 0..MaxUrlEntries}

\* fix_422_errors.py:102, apply_all_422_fixes.py:102, fix_404_errors.py:231,
\* fix_yrke_urls.py:77: with the output written over url_list.json
OutputFileMutant(script) == "url_list.json"

\* fix_422_errors.py:102, apply_all_422_fixes.py:102, fix_404_errors.py:231
\* (the default main leaves in place, line 337), fix_yrke_urls.py:77
OutputFile(script) ==
    CASE script = "fix_422_errors" -> "url_list_fixed_422.json"
      [] script = "apply_all_422_fixes" -> "url_list_all_422_fixed.json"
      [] script = "fix_404_errors" -> "url_list_improved.json"
      [] script = "fix_yrke_urls" -> "url_list_fixed_yrke.json"

\* fix_422_errors.py:131, apply_all_422_fixes.py:136
ReportFile(script) ==
    CASE script = "fix_422_errors" -> "HTTP_422_FIXES.md"
      [] script = "apply_all_422_fixes" -> "ALL_422_FIXES_APPLIED.md"
      [] OTHER -> "none"

FileNames ==
    {"url_list.json"} \cup {OutputFile(sc) : sc \in Scripts}
        \cup {ReportFile(sc) : sc \in {"fix_422_errors", "apply_all_422_fixes"}}

\* fix_422_errors.py:32-98: the vov and sammenligning/yrke base endpoints are
\* removed, an ovttas endpoint gets its parameters, every other entry is kept
RECURSIVE Fix422(_)
Fix422(list) ==
    IF list = <<>> THEN <<>>
    ELSE LET url == Head(list)
             new == IF url \in {"vov/fagkode_velger", "sammenligning/yrke"} THEN <<>>
                    ELSE IF url = "ovttas/emne" THEN <<"ovttas/emne?lang=nb&prefix=0|">>
                    ELSE <<url>>
         IN  new \o Fix422(Tail(list))

\* apply_all_422_fixes.py:23-79: the loop over url_list
RECURSIVE ApplyFixes(_)
ApplyFixes(list) ==
    IF list = <<>> THEN <<>>
    ELSE LET url == Head(list)
             new == IF url = "ovttas/result" THEN <<>>
                    ELSE IF url = "search/facet?facet=type"
                           THEN <<"search/facet?facet=innholdstype">>
                    ELSE <<url>>
         IN  new \o ApplyFixes(Tail(list))

\* apply_all_422_fixes.py:35-49: the first two of additional_facet_endpoints
AdditionalFacetEndpoints ==
    <<"search/facet?facet=hovedfasett", "search/facet?facet=innholdstype">>

\* apply_all_422_fixes.py:81-99: the facet endpoints not yet in the list are added
ApplyAll422(list) ==
    LET fixed == ApplyFixes(list)
        existing_urls == {fixed[k] : k \in 1..Len(fixed)}
    IN  fixed \o SelectSeq(AdditionalFacetEndpoints, LAMBDA u : u \notin existing_urls)

\* fix_404_errors.py:264, fix_yrke_urls.py:63, 71: the URL of an id
WithId(template, id) ==
    CASE template = "finnlarebedrift/bedrift/{id}" /\ id = "1" -> "finnlarebedrift/bedrift/1"
      [] template = "sammenligning/yrke/{id}" /\ id = "y_1" -> "sammenligning/yrke/y_1"
      [] template = "sammenligning/utdanning/{id}" /\ id = "u_1" -> "sammenligning/utdanning/u_1"
      [] template = "sammenligning/yrke/{id}" /\ id = "y_2" -> "sammenligning/yrke/y_2"
      [] template = "sammenligning/utdanning/{id}" /\ id = "u_2" -> "sammenligning/utdanning/u_2"

\* fix_404_errors.py:241-312: excluded endpoints are dropped, a template is
\* replaced by one URL for each valid id, every other entry is kept
RECURSIVE Improve404(_, _)
Improve404(list, bedrift_ids) ==
    IF list = <<>> THEN <<>>
    ELSE LET url == Head(list)
             new == IF url = "search_logs" THEN <<>>
                    ELSE IF url = "finnlarebedrift/bedrift/{id}"
                           THEN [k \in 1..Len(bedrift_ids) |-> WithId(url, bedrift_ids[k])]
                    ELSE <<url>>
         IN  new \o Improve404(Tail(list), bedrift_ids)

\* fix_yrke_urls.py:45: `'sammenligning/yrke' in url`, for the URLs of the model
ContainsYrke(url) ==
    url \in {"sammenligning/yrke", "sammenligning/yrke/{id}", "sammenligning/yrke2utdanning",
             "sammenligning/yrke/y_1", "sammenligning/yrke/y_2"}

\* fix_yrke_urls.py:40-73: the entries whose URL contains sammenligning/yrke are
\* removed, all but sammenligning/yrke2utdanning; the base URL and one URL for
\* each y_ and u_ id are appended
FixYrke(list, y_ids, u_ids) ==
    SelectSeq(list, LAMBDA u : ~ContainsYrke(u) \/ u = "sammenligning/yrke2utdanning")
        \o <<"sammenligning/yrke">>
        \o [k \in 1..Len(y_ids) |-> WithId("sammenligning/yrke/{id}", y_ids[k])]
        \o [k \in 1..Len(u_ids) |-> WithId("sammenligning/utdanning/{id}", u_ids[k])]

\* the ids the scripts find in the downloaded data: none or one of each kind
IdLists == [bedrift : {<<>>, <<"1">>}, y : {<<>>, <<"y_1">>}, u : {<<>>, <<"u_1">>}]

Repaired(script, list, ids) ==
    CASE script = "fix_422_errors" -> Fix422(list)
      [] script = "apply_all_422_fixes" -> ApplyAll422(list)
      [] script = "fix_404_errors" -> Improve404(list, ids.bedrift)
      [] script = "fix_yrke_urls" -> FixYrke(list, ids.y, ids.u)

NoFile == [exists |-> FALSE, list |-> <<>>]

File(list) == [exists |-> TRUE, list |-> list]

RpStart(content) ==
    /\ files = [f \in FileNames |-> IF f = "url_list.json" THEN content ELSE NoFile]
    /\ rp_script = "none"
    /\ rp_pc = "idle"
    /\ url_list = <<>>
    /\ rp_before = content
    /\ rp_written = {}

\* fix_422_errors.py:16-19, apply_all_422_fixes.py:15-18,
\* fix_404_errors.py:236-237, fix_yrke_urls.py:16-38: the script starts and
\* reads url_list.json; open raises when the file is missing, and
\* fix_yrke_urls returns before it when sammenligning_main.json is missing
ReadUrlList(script, has_main) ==
    /\ rp_pc \in {"idle", "done", "failed"}
    /\ rp_script' = script
    /\ rp_before' = files["url_list.json"]
    /\ rp_written' = {}
    /\ IF script = "fix_yrke_urls" /\ ~has_main
         THEN rp_pc' = "done" /\ url_list' = <<>>
         ELSE IF ~files["url_list.json"].exists
                THEN rp_pc' = "failed" /\ url_list' = <<>>
                ELSE rp_pc' = "loaded" /\ url_list' = files["url_list.json"].list
    /\ UNCHANGED files

\* fix_422_errors.py:68-105, apply_all_422_fixes.py:57-105,
\* fix_404_errors.py:239-316, fix_yrke_urls.py:40-80: the new list is built and
\* written to the output file
WriteOutput(ids) ==
    /\ rp_pc = "loaded"
    /\ url_list' = Repaired(rp_script, url_list, ids)
    /\ files' = [files EXCEPT ![OutputFile(rp_script)] = File(url_list')]
    /\ rp_written' = rp_written \cup {OutputFile(rp_script)}
    /\ rp_pc' = IF ReportFile(rp_script) = "none" THEN "done" ELSE "report"
    /\ UNCHANGED <<rp_script, rp_before>>

\* fix_422_errors.py:131-168, apply_all_422_fixes.py:136-180: the report
WriteReport ==
    /\ rp_pc = "report"
    /\ files' = [files EXCEPT ![ReportFile(rp_script)] =
                     File(<<Len(rp_before.list), Len(url_list)>>)]
    /\ rp_written' = rp_written \cup {ReportFile(rp_script)}
    /\ rp_pc' = "done"
    /\ UNCHANGED <<rp_script, url_list, rp_before>>

(* Claims about the repair scripts *)

\* C19: a run of any repair script (fix_422_errors, apply_all_422_fixes,
\* fix_404_errors, fix_yrke_urls) leaves the content of url_list.json exactly
\* as it was before the run; the script writes only to its own distinctly
\* named output and report files.
C19_UrlListUntouched ==
    rp_script \in Scripts =>
        /\ files["url_list.json"] = rp_before
        /\ "url_list.json" \notin rp_written
        /\ rp_written \subseteq {OutputFile(rp_script), ReportFile(rp_script)}
        /\ \A sc \in Scripts \ {rp_script} :
              {OutputFile(sc), ReportFile(sc)} \cap {OutputFile(rp_script), ReportFile(rp_script)}
                 \subseteq {"none"}

\* a finished run of fix_422_errors whose output differs from the list it read,
\* after a run of another script wrote its output
C19_Witness ==
    /\ rp_script = "fix_422_errors"
    /\ rp_pc = "done"
    /\ rp_written = {"url_list_fixed_422.json", "HTTP_422_FIXES.md"}
    /\ files["url_list_fixed_422.json"] # files["url_list.json"]
    /\ files["url_list_fixed_yrke.json"].exists

----------------------------------------------------------------------------
(* TextExtractor._split_text_into_chunks, src/text_extractor.py:337-361    *)
(*                                                                         *)
(* A text is a sequence of runs, as for is_valid_id: "a" is a character    *)
(* that is not whitespace, " " the space, "\n" the line feed. Positions    *)
(* count from 0, and text[from:to] is represented by <<from, to>>.         *)

\* line 39: self.max_chunk_size
max_chunk_size == 1500

\* line 40: self.chunk_overlap
chunk_overlap == 200

\* line 38: self.min_text_length
min_text_length == 20

TextChars == {"a", " ", "\n"}

\* run lengths below the overlap, above it, and of a whole window
TextRunLengths == {1, 300, 1500}

Texts == UNION {[1..k -> [ch : TextChars, n : TextRunLengths]] : k \in 0..MaxTextRuns}

\* the position of the first character of run k
RunFrom(text, k) == StrLen(SubSeq(text, 1, k - 1))

\* the position after the last character of run k
RunTo(text, k) == StrLen(SubSeq(text, 1, k))

\* the runs of characters of the set cs that reach into text[start:end]
RunsIn(text, cs, start, end) ==
    {k \in 1..Len(text) : /\ text[k].ch \in cs
                          /\ RunFrom(text, k) < end
                          /\ RunTo(text, k) > start}

Max(a, b) == IF a > b THEN a ELSE b

Largest(S) == CHOOSE x \in S : \A y \in S : y <= x

Smallest(S) == CHOOSE x \in S : \A y \in S : x <= y

\* line 351: text.rfind(' ', start, end): the last space of text[start:end], or -1
RFind(text, start, end) ==
    LET runs == RunsIn(text, {" "}, start, end)
    IN  IF runs = {} THEN -1
        ELSE Largest({Min(RunTo(text, k), end) - 1 : k \in runs})

\* line 355: text[start:end].strip(): the slice without the whitespace at its ends
Strip(text, start, end) ==
    LET runs == RunsIn(text, {"a"}, start, end)
    IN  IF runs = {} THEN <<start, start>>
        ELSE << Smallest({Max(RunFrom(text, k), start) : k \in runs}),
                Largest({Min(RunTo(text, k), end) : k \in runs}) >>

\* line 244: `chunks = self._split_text_into_chunks(enhanced_text)`: the call
CkStart(text) ==
    /\ ck_text = text
    /\ ck_pc = "called"
    /\ ck_start = 0
    /\ chunks = <<>>

\* lines 339-343: a short text is returned whole, else the loop begins
SplitEnter ==
    /\ ck_pc = "called"
    /\ IF StrLen(ck_text) <= max_chunk_size
         THEN /\ ck_pc' = "returned"
              /\ chunks' = << <<0, StrLen(ck_text)>> >>
         ELSE /\ ck_pc' = "loop"
              /\ chunks' = <<>>
    /\ UNCHANGED <<ck_text, ck_start>>

\* lines 345-359: one iteration of the loop
SplitIteration ==
    /\ ck_pc = "loop"
    /\ ck_start < StrLen(ck_text)
    /\ LET window_end == Min(ck_start + max_chunk_size, StrLen(ck_text))
           break_point == RFind(ck_text, ck_start, window_end)
           end == IF /\ window_end < StrLen(ck_text)
                     /\ break_point > ck_start + max_chunk_size \div 2
                    THEN break_point
                    ELSE window_end
           chunk == Strip(ck_text, ck_start, end)
       IN  /\ chunks' = IF chunk[2] - chunk[1] >= min_text_length
                          THEN Append(chunks, chunk)
                          ELSE chunks
           /\ ck_start' = Max(end - chunk_overlap, ck_start + 1)
    /\ UNCHANGED <<ck_text, ck_pc>>

\* lines 345, 361: the loop ends and the list is returned
SplitReturn ==
    /\ ck_pc = "loop"
    /\ ck_start >= StrLen(ck_text)
    /\ ck_pc' = "returned"
    /\ UNCHANGED <<ck_text, ck_start, chunks>>

(* Claims about chunking *)

\* every character from position p on lies in a chunk: p lies in one, and so
\* does everything after the farthest chunk that holds p
RECURSIVE CoveredFrom(_)
CoveredFrom(p) ==
    IF p >= StrLen(ck_text) THEN TRUE
    ELSE LET holding == {k \in 1..Len(chunks) : chunks[k][1] <= p /\ p < chunks[k][2]}
         IN  holding # {} /\ CoveredFrom(Largest({chunks[k][2] : k \in holding}))

\* C20: for a text longer than the chunk size, every character of the text is
\* contained in at least one chunk returned by _split_text_into_chunks; for a
\* text whose length is at most the chunk size, exactly one chunk is returned
\* and it equals the input.
C20_ChunksCoverText ==
    ck_pc = "returned" =>
        IF StrLen(ck_text) > max_chunk_size
          THEN CoveredFrom(0)
          ELSE chunks = << <<0, StrLen(ck_text)>> >>

\* C26: every chunk is at most max_chunk_size characters, each chunk after the
\* first starts exactly chunk_overlap characters before the end of the
\* preceding chunk, and once a chunk reaches the end of the text no further
\* chunk is produced.
C26_ChunkSizeOverlapAndEnd ==
    ck_pc = "returned" =>
        /\ \A k \in 1..Len(chunks) : chunks[k][2] - chunks[k][1] <= max_chunk_size
        /\ \A k \in 2..Len(chunks) : chunks[k][1] = chunks[k - 1][2] - chunk_overlap
        /\ \A k \in 1..Len(chunks) : chunks[k][2] = StrLen(ck_text) => k = Len(chunks)

\* the first part alone
ChunkSizeBounded ==
    \A k \in 1..Len(chunks) : chunks[k][2] - chunks[k][1] <= max_chunk_size

\* a text without any white space of which a chunk that is not the last ends
\* at the end of the text
ChunkAfterTheEnd ==
    /\ ck_pc = "returned"
    /\ \A i \in 1..Len(ck_text) : ck_text[i].ch = "a"
    /\ \E k \in 1..Len(chunks) : chunks[k][2] = StrLen(ck_text) /\ k < Len(chunks)

----------------------------------------------------------------------------
(* Overlapping chat requests: src/ailo_web.py:84-117 runs chat for every   *)
(* request in the request's thread (app.run(threaded=True)), all on the    *)
(* one chatbot of get_or_create_ailo; src/ailo_chatbot.py:618-721. The     *)
(* threads share conversation_history. A user message is represented by   *)
(* the number of its exchange, the assistant message by the same number.   *)

Callers == {"A", "B"}

\* lines 646, 649: the 10 of conversation_history[-10:]
HistoryWindow == 10

\* line 649 with conversation_history[:10]
LastMessagesMutant(history) == SubSeq(history, 1, Min(HistoryWindow, Len(history)))

\* line 649: self.conversation_history[-10:]
LastMessages(history) ==
    SubSeq(history, Max(1, Len(history) - HistoryWindow + 1), Len(history))

\* lines 623-642: the system prompt, the context and the reminder
SystemMessages ==
    << [role |-> "system", content |-> "system_prompt"],
       [role |-> "system", content |-> "context"],
       [role |-> "system", content |-> "reminder"] >>

\* lines 620-660: the message list of the API call
BuildMessages(history, user_message) ==
    SystemMessages \o LastMessages(history) \o <<[role |-> "user", content |-> user_message]>>

\* lines 701-706 with the two appends swapped
TurnMutant(k) ==
    << [role |-> "assistant", content |-> k], [role |-> "user", content |-> k] >>

\* lines 701-706: the two messages of an exchange, in the order of the appends
Turn(k) ==
    << [role |-> "user", content |-> k], [role |-> "assistant", content |-> k] >>

\* the history after the exchanges 1..prior, one after the other
RECURSIVE PriorHistory(_)
PriorHistory(prior) == IF prior = 0 THEN <<>> ELSE PriorHistory(prior - 1) \o Turn(prior)

ShStart(prior) ==
    /\ sh_pc = [c \in Callers |-> "idle"]
    /\ sh_turn = [c \in Callers |-> 0]
    /\ sh_messages = [c \in Callers |-> <<>>]
    /\ sh_prior = prior
    /\ sh_started = 0
    /\ sh_seen = [c \in Callers |-> -1]

\* lines 592-679: chat up to session.post; with no matching document it
\* returns the fixed message of line 610 before a list is built
ShChat(c, matches) ==
    /\ sh_pc[c] = "idle"
    /\ sh_started < MaxExchanges
    /\ IF matches
         THEN LET k == sh_prior + sh_started + 1 IN
              /\ sh_started' = sh_started + 1
              /\ sh_turn' = [sh_turn EXCEPT ![c] = k]
              /\ sh_seen' = [sh_seen EXCEPT ![c] = Len(conversation_history)]
              /\ sh_messages' = [sh_messages EXCEPT ![c] = BuildMessages(conversation_history, k)]
              /\ sh_pc' = [sh_pc EXCEPT ![c] = "posted"]
         ELSE UNCHANGED <<sh_started, sh_turn, sh_seen, sh_messages, sh_pc>>
    /\ UNCHANGED <<sh_prior, conversation_history>>

\* lines 680-721: the answer arrives; only a 200 goes on to the appends
ShAnswer(c, ok) ==
    /\ sh_pc[c] = "posted"
    /\ sh_pc' = [sh_pc EXCEPT ![c] = IF ok THEN "append_user" ELSE "idle"]
    /\ sh_messages' = [sh_messages EXCEPT ![c] = <<>>]
    /\ UNCHANGED <<sh_turn, sh_prior, sh_started, sh_seen, conversation_history>>

\* lines 701-703: the first append
ShAppendFirst(c) ==
    /\ sh_pc[c] = "append_user"
    /\ conversation_history' = Append(conversation_history, Turn(sh_turn[c])[1])
    /\ sh_pc' = [sh_pc EXCEPT ![c] = "append_assistant"]
    /\ UNCHANGED <<sh_turn, sh_messages, sh_prior, sh_started, sh_seen>>

\* lines 704-710: the second append, and chat returns
ShAppendSecond(c) ==
    /\ sh_pc[c] = "append_assistant"
    /\ conversation_history' = Append(conversation_history, Turn(sh_turn[c])[2])
    /\ sh_pc' = [sh_pc EXCEPT ![c] = "idle"]
    /\ UNCHANGED <<sh_turn, sh_messages, sh_prior, sh_started, sh_seen>>

(* Claims about the message list and about overlapping requests *)

\* C21: the message list that chat sends to the LLM consists of exactly three
\* system messages, followed by the last min(10, n) messages of the n-message
\* conversation history in their original order, followed by the new user
\* message as the final element.
C21_MessageListShape ==
    \A c \in Callers :
        sh_pc[c] = "posted" =>
            LET messages == sh_messages[c]
                n == sh_seen[c]
                m == Min(10, n)
            IN  /\ Len(messages) = 3 + m + 1
                /\ \A i \in 1..3 : messages[i].role = "system"
                /\ \A i \in 1..m : messages[3 + i] = conversation_history[n - m + i]
                /\ messages[Len(messages)] = [role |-> "user", content |-> sh_turn[c]]

\* a list built from a history of more than 10 messages
C21_Witness ==
    \E c \in Callers :
        /\ sh_pc[c] = "posted"
        /\ sh_seen[c] > 10
        /\ Len(sh_messages[c]) = 14

UserMessage(k) == [role |-> "user", content |-> k]

AssistantMessage(k) == [role |-> "assistant", content |-> k]

\* the positions of a message in the history
PositionsOf(message) ==
    {i \in 1..Len(conversation_history) : conversation_history[i] = message}

\* the last four messages of the history are these four, in this order
EndsWith(m1, m2, m3, m4) ==
    /\ Len(conversation_history) >= 4
    /\ SubSeq(conversation_history, Len(conversation_history) - 3, Len(conversation_history))
          = <<m1, m2, m3, m4>>

\* C22: the shared chatbot does not mutually exclude overlapping chat requests:
\* each request builds its list from the history as it was when it read it, so
\* a list never holds a message appended after the read, whatever the other
\* request appended meanwhile, and in the history each request's own user
\* message comes before its assistant message, each of them once.
C22_OverlappingRequests ==
    /\ \A c \in Callers :
          sh_pc[c] = "posted" =>
              \A i \in 4..(Len(sh_messages[c]) - 1) :
                  \E j \in 1..sh_seen[c] : conversation_history[j] = sh_messages[c][i]
    /\ \A c \in Callers :
          sh_pc[c] = "posted" => PositionsOf(UserMessage(sh_turn[c])) = {}
    /\ \A k \in 1..(sh_prior + sh_started) :
          /\ Cardinality(PositionsOf(UserMessage(k))) <= 1
          /\ Cardinality(PositionsOf(AssistantMessage(k))) <= 1
          /\ \A j \in PositionsOf(AssistantMessage(k)) :
                 \E i \in PositionsOf(UserMessage(k)) : i < j

\* requests A and B overlapped: A started first, B read the history before A's
\* turn was in it, and the four messages were appended alternately
C22_Witness ==
    \E a, b \in Callers :
        /\ 0 < sh_turn[a] /\ sh_turn[a] < sh_turn[b]
        /\ sh_pc[a] = "idle" /\ sh_pc[b] = "idle"
        /\ EndsWith(UserMessage(sh_turn[a]), UserMessage(sh_turn[b]),
                    AssistantMessage(sh_turn[a]), AssistantMessage(sh_turn[b]))
        /\ sh_seen[b] = Len(conversation_history) - 4

-----------------------------------------------------------------------------
(* AILOChatbot.load_knowledge_base, _load_fallback_data and                *)
(* _index_knowledge_base (ailo_chatbot.py:160-272)                         *)
(* A text is the set of the words it contains, so `keyword in text` is     *)
(* membership.                                                             *)

\* lines 230-237: the six buckets
Buckets == {"yrker", "utdanning", "lønn", "læreplass", "skole", "arbeidsmarked"}

\* lines 245-267: the keyword list of each bucket
CategoryKeywords ==
    [b \in Buckets |->
       CASE b = "yrker"         -> {"yrke", "jobb", "karriere", "occupation"}
         [] b = "utdanning"     -> {"utdanning", "studie", "bachelor", "master", "education"}
         [] b = "lønn"          -> {"lønn", "salary", "wage"}
         [] b = "læreplass"     -> {"lære", "apprentice", "bedrift", "fagbrev"}
         [] b = "skole"         -> {"skole", "vgs", "videregående"}
         [] b = "arbeidsmarked" -> {"arbeidsmarked", "labor", "market", "ledighet"}]

\* str.lower() and str.title() on the words the model's texts are made of
LowerWord(w) ==
    CASE w = "Yrke" -> "yrke" [] w = "Bachelor" -> "bachelor" [] w = "Annet" -> "annet"
      [] OTHER -> w
TitleWord(w) ==
    CASE w = "yrke" -> "Yrke" [] w = "bachelor" -> "Bachelor" [] w = "annet" -> "Annet"
      [] w = "vgs" -> "Vgs" [] OTHER -> w
LowerText(text) == {LowerWord(w) : w \in text}
TitleText(text) == {TitleWord(w) : w \in text}

\* the documents a corpus file is made of
CorpusDocs ==
    { [text |-> {"yrke", "lønn"}, title |-> {"Yrke"}, source_endpoint |-> {"sammenligning"}],
      [text |-> {"annet"}, title |-> {"Bachelor"}, source_endpoint |-> {"annet"}],
      [text |-> {"fagbrev", "vgs"}, title |-> {"Annet"}, source_endpoint |-> {"arbeidsmarked"}],
      [text |-> {"annet"}, title |-> {"Annet"}, source_endpoint |-> {"annet"}] }

\* what vectorization_dataset.json can be: absent, not JSON, a list of documents,
\* an object with or without the key 'documents'
DocLists == UNION {[1..n -> CorpusDocs] : n \in 0..MaxLoadDocs}
VectorFiles ==
    {[kind |-> k, documents |-> <<>>] : k \in {"absent", "invalid", "object_without_documents"}}
    \cup {[kind |-> k, documents |-> docs] : k \in {"list", "object"}, docs \in DocLists}

\* the *.json files of raw/: the stem of the name and the words of the content;
\* valid is whether json.load succeeds
RawFiles ==
    { [stem |-> {"yrke"}, data |-> {"lønn"}, valid |-> TRUE],
      [stem |-> {"annet"}, data |-> {"bachelor", "vgs"}, valid |-> TRUE],
      [stem |-> {"annet"}, data |-> {"annet"}, valid |-> TRUE],
      [stem |-> {"annet"}, data |-> {}, valid |-> FALSE] }
RawDirs ==
    {[exists |-> FALSE, json_files |-> <<>>]}
    \cup {[exists |-> TRUE, json_files |-> fs] :
            fs \in UNION {[1..n -> RawFiles] : n \in 0..MaxLoadDocs}}

\* line 61: `self.indexed_data = {}`
EmptyIndex == [b \in {} |-> <<>>]

\* lines 240-245: `keyword in text or keyword in title or keyword in source`
\* on the lowered fields, for any keyword of the bucket
MatchesBucket(doc, b) ==
    \E keyword \in CategoryKeywords[b] :
       \/ keyword \in LowerText(doc.text)
       \/ keyword \in LowerText(doc.title)
       \/ keyword \in LowerText(doc.source_endpoint)

\* the positions (from 0, as enumerate counts) of the documents of kb that
\* match bucket b, in order
RECURSIVE MatchingIndices(_, _, _)
MatchingIndices(kb, b, n) ==
    IF n = 0 THEN <<>>
    ELSE IF MatchesBucket(kb[n], b)
           THEN Append(MatchingIndices(kb, b, n - 1), n - 1)
           ELSE MatchingIndices(kb, b, n - 1)

\* lines 226-272: _index_knowledge_base
IndexKnowledgeBase(kb) == [b \in Buckets |-> MatchingIndices(kb, b, Len(kb))]

\* lines 212-219: the document made of one raw file
FallbackDoc(f) ==
    [text |-> f.data, title |-> TitleText(f.stem), source_endpoint |-> f.stem]

\* lines 206-222: one document appended per file that loads; a file that does
\* not is skipped with a warning
RECURSIVE FallbackDocs(_)
FallbackDocs(json_files) ==
    IF json_files = <<>> THEN <<>>
    ELSE LET rest == FallbackDocs(SubSeq(json_files, 1, Len(json_files) - 1))
             f == json_files[Len(json_files)]
         IN IF f.valid THEN Append(rest, FallbackDoc(f)) ELSE rest

LdStart(vf, rd) ==
    /\ vector_file = vf
    /\ raw_dir = rd
    /\ indexed_data = EmptyIndex
    /\ ld_pc = "constructed"

\* lines 173-186: the corpus file exists. A file that is not JSON raises inside
\* the try and nothing is assigned; else the list, or the object's 'documents'
\* (default []), becomes the knowledge base and _index_knowledge_base runs
LoadCorpus ==
    /\ ld_pc = "constructed"
    /\ vector_file.kind # "absent"
    /\ ld_pc' = "returned"
    /\ IF vector_file.kind = "invalid"
         THEN UNCHANGED <<knowledge_base, indexed_data>>
         ELSE /\ knowledge_base' = vector_file.documents
              /\ indexed_data' = IndexKnowledgeBase(vector_file.documents)
    /\ UNCHANGED <<vector_file, raw_dir>>

\* lines 187-190, 192-224: no corpus file, so _load_fallback_data runs: it
\* returns at once without raw/, else appends one document per file; then
\* load_knowledge_base returns
LoadFallback ==
    /\ ld_pc = "constructed"
    /\ vector_file.kind = "absent"
    /\ ld_pc' = "returned"
    /\ knowledge_base' =
         IF raw_dir.exists THEN knowledge_base \o FallbackDocs(raw_dir.json_files)
                           ELSE knowledge_base
    /\ UNCHANGED <<vector_file, raw_dir, indexed_data>>

\* C23: whenever load_knowledge_base returns with a non-empty knowledge base,
\* loaded from the corpus file or synthesized from raw files by the fallback,
\* the Category Index has been built: it has all six buckets and each bucket
\* holds the index of every document whose text, title or source matches that
\* bucket's keywords.
C23_IndexBuiltAfterLoad ==
    (ld_pc = "returned" /\ knowledge_base # <<>>) =>
        /\ DOMAIN indexed_data = Buckets
        /\ \A b \in Buckets : \A i \in 1..Len(knowledge_base) :
              MatchesBucket(knowledge_base[i], b) <=>
                 \E j \in 1..Len(indexed_data[b]) : indexed_data[b][j] = i - 1

\* the same for the corpus file alone
CorpusIndexBuilt ==
    (ld_pc = "returned" /\ knowledge_base # <<>> /\ vector_file.kind # "absent") =>
        /\ DOMAIN indexed_data = Buckets
        /\ \A b \in Buckets : \A i \in 1..Len(knowledge_base) :
              MatchesBucket(knowledge_base[i], b) <=>
                 \E j \in 1..Len(indexed_data[b]) : indexed_data[b][j] = i - 1

\* the fallback returned documents and no index
FallbackWithoutIndex ==
    /\ ld_pc = "returned"
    /\ vector_file.kind = "absent"
    /\ knowledge_base # <<>>
    /\ indexed_data = EmptyIndex

-----------------------------------------------------------------------------
(* TextExtractor.create_vectorization_dataset and the three document        *)
(* builders (text_extractor.py:156-323)                                    *)
(* A record is its source_endpoint, the length of its stripped content and *)
(* the number of chunks _split_text_into_chunks makes of its enhanced text.*)
(* A document is its id, type and source_endpoint and the number of        *)
(* enhanced texts its text is made of.                                     *)

RecordEndpoints == {"linje", "sammenligning"}

\* line 284: `if len(endpoint_records) < 2: continue`
MinGroupSize == 2

\* line 291: `endpoint_records[:10]`
SemanticRecordLimit == 10

\* a record one character short of min_text_length, or just long enough and
\* giving one chunk or three
RecordKinds ==
    { [content_length |-> min_text_length - 1, chunks |-> 0],
      [content_length |-> min_text_length, chunks |-> 1],
      [content_length |-> min_text_length, chunks |-> 3] }

\* the file holds up to MaxRecordRuns runs of 1 or SemanticRecordLimit equal records
RecordRuns ==
    { [source_endpoint |-> e, content_length |-> k.content_length, chunks |-> k.chunks, n |-> n] :
        e \in RecordEndpoints, k \in RecordKinds, n \in {1, SemanticRecordLimit} }

RECURSIVE ExpandRuns(_)
ExpandRuns(runs) ==
    IF runs = <<>> THEN <<>>
    ELSE LET r == runs[Len(runs)] IN
         ExpandRuns(SubSeq(runs, 1, Len(runs) - 1)) \o
            [i \in 1..r.n |-> [source_endpoint |-> r.source_endpoint,
                               content_length |-> r.content_length,
                               chunks |-> r.chunks]]

RecordFiles == {ExpandRuns(runs) : runs \in UNION {[1..k -> RecordRuns] : k \in 0..MaxRecordRuns}}

\* lines 202, 234, 292: `len(record["content"].strip()) >= self.min_text_length`
Qualifies(record) == record.content_length >= min_text_length

\* lines 197-226: _create_full_documents over the first n records: a short
\* record is skipped, the others get the id `start_id + i`, i the position of
\* the record in `records`
RECURSIVE CreateFullDocuments(_, _, _)
CreateFullDocuments(recs, start_id, n) ==
    IF n = 0 THEN <<>>
    ELSE IF ~Qualifies(recs[n])
           THEN CreateFullDocuments(recs, start_id, n - 1)
           ELSE Append(CreateFullDocuments(recs, start_id, n - 1),
                       [id |-> start_id + (n - 1), type |-> "full_document",
                        source_endpoint |-> recs[n].source_endpoint, texts |-> 1])

\* lines 228-265: _create_chunked_documents over the first n records: one
\* document per chunk of every record that is long enough, doc_id counting up
\* from start_id
RECURSIVE CreateChunkedDocuments(_, _, _)
CreateChunkedDocuments(recs, start_id, n) ==
    IF n = 0 THEN <<>>
    ELSE LET before == CreateChunkedDocuments(recs, start_id, n - 1) IN
         IF ~Qualifies(recs[n])
           THEN before
           ELSE before \o
                  [i \in 1..recs[n].chunks |->
                     [id |-> start_id + Len(before) + (i - 1), type |-> "chunked_document",
                      source_endpoint |-> recs[n].source_endpoint, texts |-> 1]]

\* lines 272-277: the keys of endpoint_groups in insertion order
RECURSIVE EndpointOrder(_)
EndpointOrder(recs) ==
    IF recs = <<>> THEN <<>>
    ELSE LET before == EndpointOrder(SubSeq(recs, 1, Len(recs) - 1))
             e == recs[Len(recs)].source_endpoint
         IN IF \E i \in 1..Len(before) : before[i] = e THEN before ELSE Append(before, e)

\* lines 272-277: endpoint_groups[endpoint]
EndpointRecords(recs, endpoint) == SelectSeq(recs, LAMBDA r : r.source_endpoint = endpoint)

\* lines 291-292: the records of the group whose text is combined
CombinedTexts(endpoint_records) ==
    SelectSeq(SubSeq(endpoint_records, 1, Min(SemanticRecordLimit, Len(endpoint_records))),
              Qualifies)

\* lines 283-321: the loop over the first n groups
RECURSIVE CreateSemanticDocuments(_, _, _)
CreateSemanticDocuments(recs, start_id, n) ==
    IF n = 0 THEN <<>>
    ELSE LET before == CreateSemanticDocuments(recs, start_id, n - 1)
             endpoint == EndpointOrder(recs)[n]
             endpoint_records == EndpointRecords(recs, endpoint)
             combined_texts == CombinedTexts(endpoint_records)
         IN IF Len(endpoint_records) < MinGroupSize \/ combined_texts = <<>>
              THEN before
              ELSE Append(before,
                          [id |-> start_id + Len(before), type |-> "semantic_document",
                           source_endpoint |-> endpoint, texts |-> Len(combined_texts)])

DsStart(recs) ==
    /\ records = recs
    /\ documents = <<>>
    /\ document_id = 0
    /\ ds_pc = "loaded"

\* lines 176-179
AddFullDocuments ==
    /\ ds_pc = "loaded"
    /\ LET full_documents == CreateFullDocuments(records, document_id, Len(records)) IN
         /\ documents' = documents \o full_documents
         /\ document_id' = document_id + Len(full_documents)
    /\ ds_pc' = "full"
    /\ UNCHANGED records

\* lines 181-184
AddChunkedDocuments ==
    /\ ds_pc = "full"
    /\ LET chunked_documents == CreateChunkedDocuments(records, document_id, Len(records)) IN
         /\ documents' = documents \o chunked_documents
         /\ document_id' = document_id + Len(chunked_documents)
    /\ ds_pc' = "chunked"
    /\ UNCHANGED records

\* lines 186-191: the semantic documents are added and the dataset is saved
AddSemanticDocuments ==
    /\ ds_pc = "chunked"
    /\ documents' = documents \o
          CreateSemanticDocuments(records, document_id, Len(EndpointOrder(records)))
    /\ ds_pc' = "saved"
    /\ UNCHANGED <<records, document_id>>

SemanticOf(endpoint) ==
    {i \in 1..Len(documents) : /\ documents[i].type = "semantic_document"
                               /\ documents[i].source_endpoint = endpoint}

QualifyingOf(endpoint) ==
    {i \in 1..Len(records) : records[i].source_endpoint = endpoint /\ Qualifies(records[i])}

\* C24: _create_semantic_documents emits a semantic document for a source
\* endpoint if and only if that endpoint has at least 2 qualifying records
\* (content of at least 20 characters), emits at most one per endpoint, and
\* builds it from up to 10 of that endpoint's qualifying records.
C24_SemanticDocumentPerEndpoint ==
    ds_pc = "saved" =>
        \A e \in RecordEndpoints :
           /\ SemanticOf(e) # {} <=> Cardinality(QualifyingOf(e)) >= MinGroupSize
           /\ Cardinality(SemanticOf(e)) <= 1
           /\ \A i \in SemanticOf(e) :
                 /\ documents[i].texts <= SemanticRecordLimit
                 /\ documents[i].texts <= Cardinality(QualifyingOf(e))

\* what the code does: a document for the endpoints of at least 2 records of
\* any length of which one of the first 10 qualifies
SemanticAsCoded ==
    ds_pc = "saved" =>
        \A e \in RecordEndpoints :
           /\ SemanticOf(e) # {} <=>
                 /\ Len(EndpointRecords(records, e)) >= MinGroupSize
                 /\ CombinedTexts(EndpointRecords(records, e)) # <<>>
           /\ Cardinality(SemanticOf(e)) <= 1
           /\ \A i \in SemanticOf(e) :
                 /\ documents[i].texts <= SemanticRecordLimit
                 /\ documents[i].texts <= Cardinality(QualifyingOf(e))

\* a semantic document made of the one qualifying record of its endpoint
SemanticOfOneRecord ==
    /\ ds_pc = "saved"
    /\ \E e \in RecordEndpoints :
          /\ Cardinality(QualifyingOf(e)) = 1
          /\ \E i \in SemanticOf(e) : documents[i].texts = 1

\* C29: all documents of one create_vectorization_dataset run have pairwise
\* distinct ids, and the ids are the consecutive integers 0..N-1 in output
\* order, also when some records are skipped for being shorter than the
\* minimum text length.
C29_DocumentIdsSequential ==
    ds_pc = "saved" =>
        /\ \A i, j \in 1..Len(documents) : i # j => documents[i].id # documents[j].id
        /\ \A i \in 1..Len(documents) : documents[i].id = i - 1

\* the same when no record is skipped
IdsSequentialWithoutSkips ==
    (ds_pc = "saved" /\ \A i \in 1..Len(records) : Qualifies(records[i])) =>
        /\ \A i, j \in 1..Len(documents) : i # j => documents[i].id # documents[j].id
        /\ \A i \in 1..Len(documents) : documents[i].id = i - 1

\* two documents of one dataset with the same id
DuplicateDocumentId ==
    /\ ds_pc = "saved"
    /\ \E i, j \in 1..Len(documents) : i # j /\ documents[i].id = documents[j].id

-----------------------------------------------------------------------------
(* fix_yrke_urls.py run, promoted (its step 3, `mv url_list_fixed_yrke.json *)
(* url_list.json`, lines 91-95) and run again                              *)

\* the entries of the catalog the generator is given
YrkeUrlPool ==
    {"kategorisystemer/nus", "sammenligning/yrke", "sammenligning/yrke/{id}",
     "sammenligning/yrke2utdanning", "sammenligning/yrke/y_1", "sammenligning/utdanning/u_1"}

YrkeCatalogs == UNION {[1..n -> YrkeUrlPool] : n \in 0..MaxUrlEntries}

\* lines 28-29: the sorted y_ and u_ keys of the data
SammenligningIds ==
    [bedrift : {<<>>}, y : {<<>>, <<"y_1">>, <<"y_1", "y_2">>},
     u : {<<>>, <<"u_1">>, <<"u_1", "u_2">>}]

RrStart(ids) ==
    /\ sammenligning_ids = ids
    /\ rr_runs = 0
    /\ rr_promoted = FALSE

\* lines 16-38: a run starts; sammenligning_main.json is there
StartFixYrke ==
    /\ rr_runs < MaxYrkeRuns
    /\ ReadUrlList("fix_yrke_urls", TRUE)
    /\ rr_runs' = rr_runs + 1
    /\ UNCHANGED <<sammenligning_ids, rr_promoted>>

\* lines 40-80: the run filters, appends and writes url_list_fixed_yrke.json
FinishFixYrke ==
    /\ rp_script = "fix_yrke_urls"
    /\ WriteOutput(sammenligning_ids)
    /\ UNCHANGED rrVars

\* lines 91-95, the next steps the script prints: the output replaces url_list.json
Promote ==
    /\ rp_pc = "done"
    /\ files[OutputFile("fix_yrke_urls")].exists
    /\ files' = [files EXCEPT !["url_list.json"] = files[OutputFile("fix_yrke_urls")],
                              ![OutputFile("fix_yrke_urls")] = NoFile]
    /\ rr_promoted' = TRUE
    /\ UNCHANGED <<rp_script, rp_pc, url_list, rp_before, rp_written, sammenligning_ids, rr_runs>>

\* how often url occurs in list
TimesIn(list, url) == Cardinality({k \in 1..Len(list) : list[k] = url})

\* C27: the output of the generator contains exactly one descriptor per
\* discovered y_ id, exactly one per discovered u_ id and exactly one bare
\* comparison base URL, for any input catalog; when the catalog is the promoted
\* output of an earlier run with the same ids, the output equals the input as
\* a set and has no duplicates.
C27_OneDescriptorPerId ==
    (rp_script = "fix_yrke_urls" /\ rp_pc = "done" /\ files[OutputFile("fix_yrke_urls")].exists) =>
        LET output == files[OutputFile("fix_yrke_urls")].list
            y_ids == sammenligning_ids.y
            u_ids == sammenligning_ids.u
        IN  /\ TimesIn(output, "sammenligning/yrke") = 1
            /\ \A k \in 1..Len(y_ids) :
                  TimesIn(output, WithId("sammenligning/yrke/{id}", y_ids[k])) = 1
            /\ \A k \in 1..Len(u_ids) :
                  TimesIn(output, WithId("sammenligning/utdanning/{id}", u_ids[k])) = 1
            /\ rr_promoted =>
                  /\ Elements(output) = Elements(rp_before.list)
                  /\ \A url \in Elements(output) : TimesIn(output, url) = 1

\* the part that holds: the base URL and the URL of every y_ id are in the
\* output once, and the output of a run on promoted output has the same URLs
YrkeDescriptorsOnce ==
    (rp_script = "fix_yrke_urls" /\ rp_pc = "done" /\ files[OutputFile("fix_yrke_urls")].exists) =>
        LET output == files[OutputFile("fix_yrke_urls")].list
            y_ids == sammenligning_ids.y
        IN  /\ TimesIn(output, "sammenligning/yrke") = 1
            /\ \A k \in 1..Len(y_ids) :
                  TimesIn(output, WithId("sammenligning/yrke/{id}", y_ids[k])) = 1
            /\ rr_promoted => Elements(output) = Elements(rp_before.list)

\* a second run, on the promoted output of the first run on an empty catalog,
\* wrote the URL of u_1 twice
UtdanningUrlTwice ==
    /\ rp_script = "fix_yrke_urls"
    /\ rp_pc = "done"
    /\ rr_promoted
    /\ rr_runs = 2
    /\ files[OutputFile("fix_yrke_urls")].exists
    /\ files[OutputFile("fix_yrke_urls")].list =
          <<"sammenligning/utdanning/u_1", "sammenligning/yrke", "sammenligning/yrke/y_1",
            "sammenligning/utdanning/u_1">>

-----------------------------------------------------------------------------
(* URLProcessor.match_ids_to_parameterized_urls and the download of what   *)
(* it returns (url_processor.py:129-228)                                   *)
(* A URL is the sequence of its parts: a text, a {placeholder}, or an id   *)
(* put in place of one. A set of ids is, for each prefix, how many ids of  *)
(* that prefix it holds (y_1 .. y_n); a set is sorted as Python sorts the  *)
(* strings: digits first, then u_, then y_.                                *)

\* line 175: `sorted_ids[:100]`
MatchLimit == 100

UrlText(text) == [kind |-> "text", name |-> text, n |-> 0]
Placeholder(param_name) == [kind |-> "param", name |-> param_name, n |-> 0]
IdValue(prefix, n) == [kind |-> "id", name |-> prefix, n |-> n]

ParameterizedUrls ==
    { <<UrlText("finnlarebedrift/bedrift/"), Placeholder("id")>>,
      <<UrlText("sammenligning/yrke/"), Placeholder("id")>>,
      <<UrlText("sammenligning/utdanning/"), Placeholder("id")>>,
      <<UrlText("kategorisystemer/"), Placeholder("system"), UrlText("/"), Placeholder("id")>> }

\* line 144: re.findall(r'\{([^}]+)\}', url_template), in order
ParamNames(template) ==
    LET params == SelectSeq(template, LAMBDA part : part.kind = "param")
    IN  [k \in 1..Len(params) |-> params[k].name]

\* lines 152-156: the prefix the ids of the template must have, "" for none
PrefixFilter(template) ==
    IF \E k \in 1..Len(template) : template[k] = UrlText("sammenligning/yrke/")
      THEN "y_"
    ELSE IF \E k \in 1..Len(template) : template[k] = UrlText("sammenligning/utdanning/")
      THEN "u_"
    ELSE ""

\* the files of raw/ the ids were mined from
IdSources == {"arbeidsmarkedskart_main", "kategorisystemer_nus"}

\* line 161: `param_name.lower() in source.lower() or (param_name == 'id' and
\* 'id' in source.lower())`
FieldMatch(param_name, source) ==
    \/ param_name = "id" /\ source = "arbeidsmarkedskart_main"
    \/ param_name = "system" /\ source = "kategorisystemer_nus"

NoIds == [plain |-> 0, u |-> 0, y |-> 0]

IdSets == [plain : {0, FewIds, MatchLimit + 1}, u : {0, FewIds}, y : {0, FewIds, MatchLimit + 1}]

\* the union of two sets of ids
IdUnion(a, b) == [plain |-> Max(a.plain, b.plain), u |-> Max(a.u, b.u), y |-> Max(a.y, b.y)]

\* lines 163-169: the ids of a collection that pass the prefix filter
Filtered(ids, prefix_filter) ==
    CASE prefix_filter = "y_" -> [NoIds EXCEPT !.y = ids.y]
      [] prefix_filter = "u_" -> [NoIds EXCEPT !.u = ids.u]
      [] OTHER -> ids

\* lines 148-169: matching_ids for one parameter
MatchingIds(template, param_name, collections) ==
    LET of(source) == IF FieldMatch(param_name, source)
                        THEN Filtered(collections[source], PrefixFilter(template))
                        ELSE NoIds
    IN  IdUnion(of("arbeidsmarkedskart_main"), of("kategorisystemer_nus"))

\* lines 174-175: sorted(list(matching_ids))[:100]
SortedIds(ids) ==
    [k \in 1..Min(MatchLimit, ids.plain + ids.u + ids.y) |->
        IF k <= ids.plain THEN IdValue("", k)
        ELSE IF k <= ids.plain + ids.u THEN IdValue("u_", k - ids.plain)
        ELSE IdValue("y_", k - ids.plain - ids.u)]

\* line 176: url_template.replace('{param_name}', str(id_val))
Replace(template, param_name, id) ==
    [k \in 1..Len(template) |->
        IF template[k] = Placeholder(param_name) THEN id ELSE template[k]]

\* lines 147-177: the concrete URLs of the first n parameters of the template
RECURSIVE ConcreteUrls(_, _, _)
ConcreteUrls(template, collections, n) ==
    IF n = 0 THEN <<>>
    ELSE LET param_name == ParamNames(template)[n]
             sorted_ids == SortedIds(MatchingIds(template, param_name, collections))
         IN  ConcreteUrls(template, collections, n - 1) \o
                [k \in 1..Len(sorted_ids) |-> Replace(template, param_name, sorted_ids[k])]

NoMapping == [mapped |-> FALSE, concrete_urls |-> <<>>]

MtStart(template, collections) ==
    /\ url_template = template
    /\ id_collections = collections
    /\ url_mappings = NoMapping
    /\ mt_requested = {}
    /\ mt_pc = "analyzed"

\* lines 129-183, called at line 209: the template gets an entry if any URL
\* was generated
MatchIdsToParameterizedUrls ==
    /\ mt_pc = "analyzed"
    /\ LET concrete_urls ==
             ConcreteUrls(url_template, id_collections, Len(ParamNames(url_template)))
       IN  url_mappings' = IF concrete_urls # <<>>
                             THEN [mapped |-> TRUE, concrete_urls |-> concrete_urls]
                             ELSE NoMapping
    /\ mt_pc' = "matched"
    /\ UNCHANGED <<url_template, id_collections, mt_requested>>

\* lines 215-228: every concrete URL of the mapping is handed to
\* _download_parameterized_url
DownloadConcreteUrls ==
    /\ mt_pc = "matched"
    /\ mt_requested' = {url_mappings.concrete_urls[k] : k \in 1..Len(url_mappings.concrete_urls)}
    /\ mt_pc' = "downloaded"
    /\ UNCHANGED <<url_template, id_collections, url_mappings>>

HasPlaceholder(url) == \E k \in 1..Len(url) : url[k].kind = "param"

\* C25: for each parameterized URL template, match_ids_to_parameterized_urls
\* yields a list of at most 100 fully substituted URLs: every {placeholder} of
\* the template has been replaced by an id, so no URL passed on to the
\* download step still contains a {...} placeholder.
C25_AtMost100SubstitutedUrls ==
    /\ mt_pc # "analyzed" =>
          /\ Len(url_mappings.concrete_urls) <= MatchLimit
          /\ \A k \in 1..Len(url_mappings.concrete_urls) :
                ~HasPlaceholder(url_mappings.concrete_urls[k])
    /\ \A url \in mt_requested : ~HasPlaceholder(url)

\* the same for the templates with one placeholder
OnePlaceholderSubstituted ==
    Len(ParamNames(url_template)) = 1 =>
        /\ mt_pc # "analyzed" =>
              /\ Len(url_mappings.concrete_urls) <= MatchLimit
              /\ \A k \in 1..Len(url_mappings.concrete_urls) :
                    ~HasPlaceholder(url_mappings.concrete_urls[k])
        /\ \A url \in mt_requested : ~HasPlaceholder(url)

\* a URL with a placeholder left was handed to the download step, one of more
\* than 100 made from its template
PlaceholderRequested ==
    /\ mt_pc = "downloaded"
    /\ Len(url_mappings.concrete_urls) > MatchLimit
    /\ \E url \in mt_requested : HasPlaceholder(url)

----------------------------------------------------------------------------
(* Specifications: one per part; the other parts' variables do not change  *)

RqIdle == RqStart(0)
DlIdle == DlStart([readable |-> FALSE, urls |-> <<>>], 1)
WebIdle == WebStart(0)
ChatIdle == ChatStart(<<>>, 1)
PlIdle == PlStart("full")
ScIdle == ScStart
EvIdle == EvStart
SmIdle == SmStart(<<"general">>, 1, TRUE)
IdIdle == IdStart(<<>>)
RpIdle == RpStart(NoFile)
CkIdle == CkStart(<<>>)
ShIdle == ShStart(0)
LdIdle == LdStart([kind |-> "absent", documents |-> <<>>], [exists |-> FALSE, json_files |-> <<>>])
DsIdle == DsStart(<<>>)
RrIdle == RrStart([bedrift |-> <<>>, y |-> <<>>, u |-> <<>>])
MtIdle == MtStart(<<>>, [source \in IdSources |-> NoIds])

\* a knowledge base of one document
LoadedKb == CHOOSE kb \in KnowledgeBases : Len(kb) = 1

RqInit ==
    /\ \E n \in 0..MaxRetryAttempts : RqStart(n)
    /\ WebIdle
    /\ ChatIdle
    /\ DlIdle
    /\ PlIdle
    /\ ScIdle
    /\ EvIdle
    /\ SmIdle
    /\ IdIdle
    /\ RpIdle
    /\ CkIdle
    /\ ShIdle
    /\ LdIdle
    /\ DsIdle
    /\ RrIdle
    /\ MtIdle

RqFrame == UNCHANGED <<webVars, chatVars, dlVars, plVars, scVars, evVars, smVars, idVars, rpVars, ckVars, shVars, ldVars, dsVars, rrVars, mtVars>>

RqNext ==
    \/ MakeRequestEnter /\ RqFrame
    \/ \E o \in Outcomes : MakeRequestAttempt(o) /\ RqFrame
    \/ MakeRequestBackoff /\ RqFrame

SpecRequest == RqInit /\ [][RqNext]_vars

WebInit ==
    /\ \E n \in 0..MaxCorpusDocs : WebStart(n)
    /\ RqIdle
    /\ ChatIdle
    /\ DlIdle
    /\ PlIdle
    /\ ScIdle
    /\ EvIdle
    /\ SmIdle
    /\ IdIdle
    /\ RpIdle
    /\ CkIdle
    /\ ShIdle
    /\ LdIdle
    /\ DsIdle
    /\ RrIdle
    /\ MtIdle

WebFrame == UNCHANGED <<rqVars, chatVars, dlVars, plVars, scVars, evVars, smVars, idVars, rpVars, ckVars, shVars, ldVars, dsVars, rrVars, mtVars>>

WebNext ==
    \/ \E t \in Threads, r \in Requests : ReceiveRequest(t, r) /\ WebFrame
    \/ \E t \in Threads : GetOrCreateTest(t) /\ WebFrame
    \/ \E t \in Threads : GetOrCreateConstruct(t) /\ WebFrame
    \/ \E t \in Threads : GetOrCreateCallLoad(t) /\ WebFrame
    \/ \E t \in Threads : LoadKnowledgeBase(t) /\ WebFrame
    \/ \E t \in Threads : GetOrCreateTestKb(t) /\ WebFrame
    \/ \E t \in Threads : GetOrCreateReturn(t) /\ WebFrame
    \/ \E t \in Threads : Respond(t) /\ WebFrame

SpecWeb == WebInit /\ [][WebNext]_vars
ChatInit ==
    /\ \E kb \in KnowledgeBases, n \in 1..MaxContextDocs : ChatStart(kb, n)
    /\ RqIdle
    /\ WebIdle
    /\ DlIdle
    /\ PlIdle
    /\ ScIdle
    /\ EvIdle
    /\ SmIdle
    /\ IdIdle
    /\ RpIdle
    /\ CkIdle
    /\ ShIdle
    /\ LdIdle
    /\ DsIdle
    /\ RrIdle
    /\ MtIdle

ChatFrame == UNCHANGED <<rqVars, webVars, dlVars, plVars, scVars, evVars, smVars, idVars, rpVars, ckVars, shVars, ldVars, dsVars, rrVars, mtVars>>

ChatNext ==
    \/ \E q \in Queries : ChatCall(q) /\ ChatFrame
    \/ \E a \in LLMAnswers : ChatAnswer(a) /\ ChatFrame
    \/ ClearConversation /\ ChatFrame

SpecChat == ChatInit /\ [][ChatNext]_vars

DlCatalogs ==
    {[readable |-> FALSE, urls |-> <<>>]} \cup {[readable |-> TRUE, urls |-> c] : c \in Catalogs}

DlInit ==
    /\ \E c \in DlCatalogs, m \in 1..MaxConcurrent : DlStart(c, m)
    /\ RqStart(DownloadRetryAttempts)
    /\ WebIdle
    /\ ChatIdle
    /\ PlIdle
    /\ ScIdle
    /\ EvIdle
    /\ SmIdle
    /\ IdIdle
    /\ RpIdle
    /\ CkIdle
    /\ ShIdle
    /\ LdIdle
    /\ DsIdle
    /\ RrIdle
    /\ MtIdle

DlFrame == UNCHANGED <<rq_pc, attempt, rq_outcomes, rq_sleeps, rq_warnings, rq_result,
                       webVars, chatVars, plVars, scVars, evVars, smVars, idVars, rpVars, ckVars, shVars, ldVars, dsVars, rrVars, mtVars>>

DlNext ==
    \/ LoadCatalog /\ DlFrame
    \/ FinishSimple /\ DlFrame
    \/ FinishQuery /\ DlFrame
    \/ StartResolver /\ DlFrame
    \/ ResolverBatch /\ DlFrame
    \/ ResolverFinish /\ DlFrame
    \/ \E i \in 1..Len(tasks) : TaskEnter(i) /\ DlFrame
    \/ \E i \in 1..Len(tasks) : TaskWake(i) /\ DlFrame
    \/ \E i \in 1..Len(tasks), o \in Outcomes : \E saved \in SaveOutcomes(o) :
           TaskResponse(i, o, saved) /\ DlFrame
    \/ \E i \in 1..Len(tasks) : TaskBackoff(i) /\ DlFrame

SpecDownload == DlInit /\ [][DlNext]_vars

PlInit ==
    /\ \E mode \in {"full"} \cup PhaseNames : PlStart(mode)
    /\ RqIdle
    /\ WebIdle
    /\ ChatIdle
    /\ DlIdle
    /\ ScIdle
    /\ EvIdle
    /\ SmIdle
    /\ IdIdle
    /\ RpIdle
    /\ CkIdle
    /\ ShIdle
    /\ LdIdle
    /\ DsIdle
    /\ RrIdle
    /\ MtIdle

PlFrame == UNCHANGED <<rqVars, webVars, chatVars, dlVars, scVars, evVars, smVars, idVars, rpVars, ckVars, shVars, ldVars, dsVars, rrVars, mtVars>>

PlNext ==
    \/ \E phase \in PhaseNames, outcome \in PhaseOutcomes, n \in 0..MaxPhaseTotal :
           RunPhase(phase, outcome, n) /\ PlFrame
    \/ \E written \in BOOLEAN : WriteCompleteSummary(written) /\ PlFrame
    \/ ReturnErrorSummary /\ PlFrame
    \/ MainExit /\ PlFrame

SpecPipeline == PlInit /\ [][PlNext]_vars

ScInit ==
    /\ ScStart
    /\ RqIdle
    /\ WebIdle
    /\ ChatIdle
    /\ DlIdle
    /\ PlIdle
    /\ EvIdle
    /\ SmIdle
    /\ IdIdle
    /\ RpIdle
    /\ CkIdle
    /\ ShIdle
    /\ LdIdle
    /\ DsIdle
    /\ RrIdle
    /\ MtIdle

ScFrame == UNCHANGED <<rqVars, webVars, chatVars, dlVars, plVars, evVars, smVars, idVars, rpVars, ckVars, shVars, ldVars, dsVars, rrVars, mtVars>>

ScNext ==
    \/ RunPendingIdle /\ ScFrame
    \/ \E outcome \in SubprocessOutcomes : RunPendingJob(outcome) /\ ScFrame
    \/ SchedulerSleep /\ ScFrame

SpecScheduler == ScInit /\ [][ScNext]_vars

EvInit ==
    /\ EvStart
    /\ RqIdle
    /\ WebIdle
    /\ ChatIdle
    /\ DlIdle
    /\ PlIdle
    /\ ScIdle
    /\ SmIdle
    /\ IdIdle
    /\ RpIdle
    /\ CkIdle
    /\ ShIdle
    /\ LdIdle
    /\ DsIdle
    /\ RrIdle
    /\ MtIdle

EvFrame == UNCHANGED <<rqVars, webVars, chatVars, dlVars, plVars, scVars, smVars, idVars, rpVars, ckVars, shVars, ldVars, dsVars, rrVars, mtVars>>

EvNext ==
    \/ \E r \in ChatReturns : EvaluateQuestion(r) /\ EvFrame
    \/ \E a \in ScoreArgs : CalculateScore(a) /\ EvFrame

SpecEvaluation == EvInit /\ [][EvNext]_vars

SmInit ==
    /\ \E p \in QuestionPools, cap \in 1..MaxQuestions, flag \in BOOLEAN : SmStart(p, cap, flag)
    /\ RqIdle
    /\ WebIdle
    /\ ChatIdle
    /\ DlIdle
    /\ PlIdle
    /\ ScIdle
    /\ EvIdle
    /\ IdIdle
    /\ RpIdle
    /\ CkIdle
    /\ ShIdle
    /\ LdIdle
    /\ DsIdle
    /\ RrIdle
    /\ MtIdle

SmFrame == UNCHANGED <<rqVars, webVars, chatVars, dlVars, plVars, scVars, evVars, idVars, rpVars, ckVars, shVars, ldVars, dsVars, rrVars, mtVars>>

SmNext ==
    \/ SelectQuestions /\ SmFrame
    \/ \E chosen \in CategorySamples : SampleCategory(chosen) /\ SmFrame
    \/ \E chosen \in FillSamples : FillAndReturn(chosen) /\ SmFrame

SpecSampling == SmInit /\ [][SmNext]_vars

IdInit ==
    /\ \E val \in Strings : IdStart(val)
    /\ RqIdle
    /\ WebIdle
    /\ ChatIdle
    /\ DlIdle
    /\ PlIdle
    /\ ScIdle
    /\ EvIdle
    /\ SmIdle
    /\ RpIdle
    /\ CkIdle
    /\ ShIdle
    /\ LdIdle
    /\ DsIdle
    /\ RrIdle
    /\ MtIdle

IdFrame == UNCHANGED <<rqVars, webVars, chatVars, dlVars, plVars, scVars, evVars, smVars, rpVars, ckVars, shVars, ldVars, dsVars, rrVars, mtVars>>

IdNext ==
    \/ CheckId /\ IdFrame

SpecValidId == IdInit /\ [][IdNext]_vars

RpInit ==
    /\ \E content \in {File(list) : list \in UrlLists} \cup {NoFile} : RpStart(content)
    /\ RqIdle
    /\ WebIdle
    /\ ChatIdle
    /\ DlIdle
    /\ PlIdle
    /\ ScIdle
    /\ EvIdle
    /\ SmIdle
    /\ IdIdle
    /\ CkIdle
    /\ ShIdle
    /\ LdIdle
    /\ DsIdle
    /\ RrIdle
    /\ MtIdle

RpFrame == UNCHANGED <<rqVars, webVars, chatVars, dlVars, plVars, scVars, evVars, smVars,
                       idVars, ckVars, shVars, ldVars, dsVars, rrVars, mtVars>>

RpNext ==
    \/ \E script \in Scripts, has_main \in BOOLEAN : ReadUrlList(script, has_main) /\ RpFrame
    \/ \E ids \in IdLists : WriteOutput(ids) /\ RpFrame
    \/ WriteReport /\ RpFrame

SpecRepair == RpInit /\ [][RpNext]_vars

CkInit ==
    /\ \E text \in Texts : CkStart(text)
    /\ RqIdle
    /\ WebIdle
    /\ ChatIdle
    /\ DlIdle
    /\ PlIdle
    /\ ScIdle
    /\ EvIdle
    /\ SmIdle
    /\ IdIdle
    /\ RpIdle
    /\ ShIdle
    /\ LdIdle
    /\ DsIdle
    /\ RrIdle
    /\ MtIdle

CkFrame == UNCHANGED <<rqVars, webVars, chatVars, dlVars, plVars, scVars, evVars, smVars,
                       idVars, rpVars, shVars, ldVars, dsVars, rrVars, mtVars>>

CkNext ==
    \/ SplitEnter /\ CkFrame
    \/ SplitIteration /\ CkFrame
    \/ SplitReturn /\ CkFrame

SpecChunks == CkInit /\ [][CkNext]_vars

ShInit ==
    /\ \E prior \in 0..MaxPriorTurns :
          /\ ShStart(prior)
          /\ knowledge_base = LoadedKb
          /\ max_context_docs = MaxContextDocs
          /\ conversation_history = PriorHistory(prior)
          /\ ch_pc = "idle"
          /\ ch_query = {}
          /\ ch_context = NoContext
          /\ ch_posts = 0
          /\ ch_return = NoReturn
          /\ ch_calls = 0
    /\ RqIdle
    /\ WebIdle
    /\ DlIdle
    /\ PlIdle
    /\ ScIdle
    /\ EvIdle
    /\ SmIdle
    /\ IdIdle
    /\ RpIdle
    /\ CkIdle
    /\ LdIdle
    /\ DsIdle
    /\ RrIdle
    /\ MtIdle

ShFrame == UNCHANGED <<rqVars, webVars, knowledge_base, max_context_docs, ch_pc, ch_query,
                       ch_context, ch_posts, ch_return, ch_calls, dlVars, plVars, scVars,
                       evVars, smVars, idVars, rpVars, ckVars, ldVars, dsVars, rrVars, mtVars>>

ShNext ==
    \/ \E c \in Callers, matches \in BOOLEAN : ShChat(c, matches) /\ ShFrame
    \/ \E c \in Callers, ok \in BOOLEAN : ShAnswer(c, ok) /\ ShFrame
    \/ \E c \in Callers : ShAppendFirst(c) /\ ShFrame
    \/ \E c \in Callers : ShAppendSecond(c) /\ ShFrame

SpecSharedChat == ShInit /\ [][ShNext]_vars

LdInit ==
    /\ \E vf \in VectorFiles, rd \in RawDirs : LdStart(vf, rd)
    /\ RqIdle
    /\ DlIdle
    /\ WebIdle
    /\ ChatIdle
    /\ PlIdle
    /\ ScIdle
    /\ EvIdle
    /\ SmIdle
    /\ IdIdle
    /\ RpIdle
    /\ CkIdle
    /\ ShIdle
    /\ DsIdle
    /\ RrIdle
    /\ MtIdle

LdFrame == UNCHANGED <<rqVars, webVars, max_context_docs, conversation_history, ch_pc,
                       ch_query, ch_context, ch_posts, ch_return, ch_calls, dlVars, plVars,
                       scVars, evVars, smVars, idVars, rpVars, ckVars, shVars, dsVars, rrVars, mtVars>>

LdNext ==
    \/ LoadCorpus /\ LdFrame
    \/ LoadFallback /\ LdFrame

SpecLoad == LdInit /\ [][LdNext]_vars

DsInit ==
    /\ \E recs \in RecordFiles : DsStart(recs)
    /\ RqIdle
    /\ DlIdle
    /\ WebIdle
    /\ ChatIdle
    /\ PlIdle
    /\ ScIdle
    /\ EvIdle
    /\ SmIdle
    /\ IdIdle
    /\ RpIdle
    /\ CkIdle
    /\ ShIdle
    /\ LdIdle
    /\ RrIdle
    /\ MtIdle

DsFrame == UNCHANGED <<rqVars, webVars, chatVars, dlVars, plVars, scVars, evVars, smVars, idVars, rpVars, ckVars, shVars, ldVars, rrVars, mtVars>>

DsNext ==
    \/ AddFullDocuments /\ DsFrame
    \/ AddChunkedDocuments /\ DsFrame
    \/ AddSemanticDocuments /\ DsFrame

SpecDataset == DsInit /\ [][DsNext]_vars

RrInit ==
    /\ \E ids \in SammenligningIds : RrStart(ids)
    /\ \E list \in YrkeCatalogs : RpStart(File(list))
    /\ RqIdle
    /\ DlIdle
    /\ WebIdle
    /\ ChatIdle
    /\ PlIdle
    /\ ScIdle
    /\ EvIdle
    /\ SmIdle
    /\ IdIdle
    /\ CkIdle
    /\ ShIdle
    /\ LdIdle
    /\ DsIdle
    /\ MtIdle

RrFrame == UNCHANGED <<rqVars, webVars, chatVars, dlVars, plVars, scVars, evVars, smVars,
                       idVars, ckVars, shVars, ldVars, dsVars, mtVars>>

RrNext ==
    \/ StartFixYrke /\ RrFrame
    \/ FinishFixYrke /\ RrFrame
    \/ Promote /\ RrFrame

SpecRerun == RrInit /\ [][RrNext]_vars

MtInit ==
    /\ \E template \in ParameterizedUrls, collections \in [IdSources -> IdSets] :
          MtStart(template, collections)
    /\ RqIdle
    /\ DlIdle
    /\ WebIdle
    /\ ChatIdle
    /\ PlIdle
    /\ ScIdle
    /\ EvIdle
    /\ SmIdle
    /\ IdIdle
    /\ RpIdle
    /\ CkIdle
    /\ ShIdle
    /\ LdIdle
    /\ DsIdle
    /\ RrIdle

MtFrame == UNCHANGED <<rqVars, webVars, chatVars, dlVars, plVars, scVars, evVars, smVars, idVars, rpVars, ckVars, shVars, ldVars, dsVars, rrVars>>

MtNext ==
    \/ MatchIdsToParameterizedUrls /\ MtFrame
    \/ DownloadConcreteUrls /\ MtFrame

SpecMatch == MtInit /\ [][MtNext]_vars

====
